---- MODULE Spec2Model ----
(***************************************************************************)
(* Verification model of the WordPress -> Wix migrator's HTML -> Ricos     *)
(* converter (src/src/parsers/ricos_local.py, ricos_schema.py) and of the  *)
(* rate limiter / retry helpers (src/src/migrators/wix_migrator.py).       *)
(*                                                                         *)
(* Strings are sequences of characters (one-character strings, plus a few  *)
(* atomic tokens such as "X" for a URL).  The parsed HTML is a tree of     *)
(* records: a NavigableString has name "#text", a Tag has its tag name.    *)
(***************************************************************************)
EXTENDS Integers, Sequences, FiniteSets, TLC

VARIABLES
    image_importer,   \* convert_html_to_ricos_local: the image_importer argument
    table_mode,       \* convert_html_to_ricos_local: the table_mode argument
    html_arg,         \* "None" | "str": whether html is None or a string
    container,        \* children of the root consumed by the top-level loop so far
    inline_run,       \* ricos_local.py: inline_run buffer
    nodes,            \* ricos_local.py: nodes (output list under construction)
    pc,               \* position of the run: "scan" | "done" | "raised"
    result,           \* the returned document's node list (after validate_ricos)
    v_arg,            \* validate_ricos: the 'nodes' value as it was when the call was made
    v_in,             \* validate_ricos: the caller's node list (objects, mutable)
    v_out,            \* validate_ricos: node list of the returned document
    v_pc,             \* "call" | "done"
    r_max,            \* with_retries: max_attempts
    r_attempt,        \* with_retries: attempt
    r_calls,          \* number of times fn has been invoked
    r_outcomes,       \* outcomes of fn so far, in call order
    r_slept,          \* sleeps requested so far, in order
    r_pc,             \* "loop" | "returned" | "raised"
    r_raised,         \* kind of the exception leaving with_retries ("" if none)
    l_rpm,            \* RateLimiter.rpm
    l_last,           \* RateLimiter._last
    l_clock,          \* the clock read by time_fn
    l_returns,        \* clock values at which wait() calls returned, in order
    o_enabled,        \* orchestrator: remote conversion enabled in config
    o_pc,             \* orchestrator: "start" | "remote" | "done" | "raised"
    o_source,         \* orchestrator: "remote" | "local": where the returned document came from
    o_doc,            \* orchestrator: returned document
    t_field,          \* parse_tags_field: the field argument
    t_out,            \* parse_tags_field: the returned list of labels
    t_pc,             \* "call" | "done"
    g_labels,         \* get_or_create_terms: the labels argument
    g_existing,       \* the terms the list request returned (<<>> if it failed or returned none)
    g_term_map,       \* get_or_create_terms: term_map, as a set of <<lower label, id>>
    g_todo,           \* labels the for loop has still to handle
    g_ids,            \* get_or_create_terms: ids
    g_creates,        \* create requests made so far: [label, outcome]
    g_pc,             \* "list" | "loop" | "done"
    m_dry_run,        \* migrate_posts: config["migration"]["dry_run"]
    m_limit,          \* migrate_posts: config["migration"]["limit"]
    m_posts,          \* migrate_posts: the posts argument
    m_index,          \* number of posts the for loop has taken so far
    m_count,          \* migrate_posts: count
    m_member_id,      \* migrate_posts: member_id of the current post ("" for None)
    m_map,            \* emails that are keys of self.email_to_member_id_map
    m_default,        \* whether self.default_member_id is set
    m_calls,          \* names of the collaborators invoked so far
    m_reports,        \* codes handed to report_error / report_ok for the current post
    m_migrated,       \* migrated: indexes of the posts appended to it
    m_pc,             \* position in migrate_posts
    p_input,          \* parallel conversions: per worker, the children of the root it converts
    p_todo,           \* per worker, the children its loop has still to take
    p_run,            \* per frame, ricos_local.py: inline_run
    p_nodes,          \* per frame, ricos_local.py: nodes
    p_pc,             \* per worker: "scan" | "done" | "raised"
    p_result,         \* per worker, the returned document
    d_ricos,          \* create_draft_post: the ricos argument as it was when the call was made
    d_after,          \* the caller's ricos object after the call
    d_sent,           \* the node list of richContent in the request body
    d_pc,             \* "call" | "returned" | "raised"
    k_pc,             \* shared limiter, per worker: position inside wait()
    k_now,            \* per worker: the local `now` of its wait() call
    k_wake            \* per worker: the clock value at which its sleep_fn call ends

conv_vars == <<image_importer, table_mode, html_arg, container, inline_run, nodes, pc, result>>
val_vars == <<v_arg, v_in, v_out, v_pc>>
retry_vars == <<r_max, r_attempt, r_calls, r_outcomes, r_slept, r_pc, r_raised>>
lim_vars == <<l_rpm, l_last, l_clock, l_returns>>
orch_vars == <<o_enabled, o_pc, o_source, o_doc>>
tags_vars == <<t_field, t_out, t_pc>>
\* the variables of the helpers outside the converter, validator, retry loop and limiter
terms_vars == <<g_labels, g_existing, g_term_map, g_todo, g_ids, g_creates, g_pc>>
mig_vars == <<m_dry_run, m_limit, m_posts, m_index, m_count, m_member_id, m_map, m_default,
              m_calls, m_reports, m_migrated, m_pc>>
par_vars == <<p_input, p_todo, p_run, p_nodes, p_pc, p_result>>
draft_vars == <<d_ricos, d_after, d_sent, d_pc>>
shared_vars == <<k_pc, k_now, k_wake>>
aux_vars == <<tags_vars, terms_vars, mig_vars, par_vars, draft_vars, shared_vars>>
vars == <<conv_vars, val_vars, retry_vars, lim_vars, orch_vars, aux_vars>>
other_than_conv == <<val_vars, retry_vars, lim_vars, orch_vars, aux_vars>>
other_than_val == <<conv_vars, retry_vars, lim_vars, orch_vars, aux_vars>>
other_than_retry == <<conv_vars, val_vars, lim_vars, orch_vars, aux_vars>>
other_than_lim == <<conv_vars, val_vars, retry_vars, orch_vars, aux_vars>>

\* ------------------------------------------------------------------------
\* Bounds
\* ------------------------------------------------------------------------
MaxChildren == 3      \* number of direct children of the root that are scanned
MaxBlocks == 1        \* number of block-level elements among them
MaxNodes == 2         \* length of a synthetic node list handed to validate_ricos
MaxAttempts == 3      \* largest max_attempts handed to with_retries
MaxCalls == 3         \* number of RateLimiter.wait() calls
MaxTick == 10         \* largest time, in seconds, that passes between two statements
MaxClock == 30        \* the clock stops advancing on its own beyond this time
MaxField == 4         \* length, in characters, of a tags field
MaxLabels == 2        \* number of labels handed to get_or_create_terms
MaxPosts == 2         \* number of posts handed to migrate_posts
MaxParChildren == 2   \* children of the root of each of the parallel conversions
MaxDraftNodes == 3    \* nodes of the rich content handed to create_draft_post

\* ------------------------------------------------------------------------
\* Python string helpers
\* ------------------------------------------------------------------------
\* Characters str.strip() removes; "NBSP" is U+00A0, which Python treats as whitespace.
Whitespace == {" ", "\n", "NBSP"}

RECURSIVE lstrip(_)
lstrip(s) ==
    IF s = <<>> THEN <<>>
    ELSE IF Head(s) \in Whitespace THEN lstrip(Tail(s)) ELSE s

RECURSIVE rstrip(_)
rstrip(s) ==
    IF s = <<>> THEN <<>>
    ELSE IF s[Len(s)] \in Whitespace THEN rstrip(SubSeq(s, 1, Len(s) - 1)) ELSE s

strip(s) == rstrip(lstrip(s))

normalize_ws(text) == [i \in DOMAIN text |-> IF text[i] = "NBSP" THEN " " ELSE text[i]]

RECURSIVE join(_, _)
join(sep, strs) ==
    IF strs = <<>> THEN <<>>
    ELSE IF Len(strs) = 1 THEN strs[1]
    ELSE strs[1] \o sep \o join(sep, Tail(strs))

\* s contains sub as a contiguous substring
Contains(s, sub) ==
    \E i \in 0..(Len(s) - Len(sub)) : SubSeq(s, i + 1, i + Len(sub)) = sub

\* ------------------------------------------------------------------------
\* Python values whose type matters (isinstance checks)
\* ------------------------------------------------------------------------
PyInt(n) == [ty |-> "int", v |-> n]
PyNone == [ty |-> "NoneType", v |-> 0]
PyStr == [ty |-> "str", v |-> 0]

Max(a, b) == IF a >= b THEN a ELSE b
Min(a, b) == IF a <= b THEN a ELSE b

\* ------------------------------------------------------------------------
\* Parsed HTML (BeautifulSoup tree).  An absent attribute is the empty string.
\* ------------------------------------------------------------------------
Txt(s) == [name |-> "#text", text |-> s, src |-> <<>>, alt |-> <<>>, href |-> <<>>, kids |-> <<>>]
El(name, kids) == [name |-> name, text |-> <<>>, src |-> <<>>, alt |-> <<>>, href |-> <<>>, kids |-> kids]
Img(src, alt) == [name |-> "img", text |-> <<>>, src |-> src, alt |-> alt, href |-> <<>>, kids |-> <<>>]
Anchor(href, kids) == [name |-> "a", text |-> <<>>, src |-> <<>>, alt |-> <<>>, href |-> href, kids |-> kids]
Iframe(src) == [name |-> "iframe", text |-> <<>>, src |-> src, alt |-> <<>>, href |-> <<>>, kids |-> <<>>]

IsString(n) == n.name = "#text"
IsTag(n) == n.name # "#text"

\* Tag.descendants restricted to tags: every tag below el, in document order
RECURSIVE descendants(_)
descendants(kids) ==
    IF kids = <<>> THEN <<>>
    ELSE (IF IsTag(Head(kids)) THEN <<Head(kids)>> ELSE <<>>)
         \o descendants(Head(kids).kids) \o descendants(Tail(kids))

\* Tag.find_all(names): all descendants with one of the names
find_all(el, names) == SelectSeq(descendants(el.kids), LAMBDA d : d.name \in names)

\* Tag.find_all(names, recursive=False): direct children with one of the names
find_all_direct(el, names) == SelectSeq(el.kids, LAMBDA d : d.name \in names)

\* Tag.find(name): <<first match>> or <<>> for None
find(el, name) ==
    LET all == find_all(el, {name}) IN IF all = <<>> THEN <<>> ELSE <<all[1]>>

\* every NavigableString below, in document order
RECURSIVE all_strings(_)
all_strings(kids) ==
    IF kids = <<>> THEN <<>>
    ELSE (IF IsString(Head(kids)) THEN <<Head(kids).text>> ELSE all_strings(Head(kids).kids))
         \o all_strings(Tail(kids))

\* Tag.get_text(sep, strip=...)
get_text(el, sep, strip_flag) ==
    LET stripped(strs) == [i \in DOMAIN strs |-> strip(strs[i])]
        text(strs) ==
            IF strip_flag
            THEN join(sep, SelectSeq(stripped(strs), LAMBDA t : t # <<>>))
            ELSE join(sep, strs)
    IN  text(all_strings(el.kids))

VoidTags == {"img", "br", "hr"}

\* str(el): the element's markup
RECURSIVE Serialize(_)
RECURSIVE SerializeAll(_)
Serialize(n) ==
    IF IsString(n) THEN n.text
    ELSE LET attrs == (IF n.src # <<>> THEN <<" src=">> \o n.src ELSE <<>>)
                      \o (IF n.alt # <<>> THEN <<" alt=">> \o n.alt ELSE <<>>)
                      \o (IF n.href # <<>> THEN <<" href=">> \o n.href ELSE <<>>)
         IN  IF n.name \in VoidTags
             THEN <<"<", n.name>> \o attrs \o <<"/>">>
             ELSE <<"<", n.name>> \o attrs \o <<">">> \o SerializeAll(n.kids)
                  \o <<"</", n.name, ">">>
SerializeAll(kids) ==
    IF kids = <<>> THEN <<>> ELSE Serialize(Head(kids)) \o SerializeAll(Tail(kids))

\* ------------------------------------------------------------------------
\* ricos_schema.py: builders
\* ------------------------------------------------------------------------
\* A dict of the output tree; a key the dict lacks holds the empty value.
NodeBase ==
    [type |-> "", nodes |-> <<>>, text |-> <<>>, decorations |-> <<>>,
     level |-> PyNone, id |-> <<>>, src_id |-> <<>>, caption |-> <<>>, html |-> <<>>,
     rows |-> <<>>, headerRows |-> 0]

text_node(text, decorations) ==
    [NodeBase EXCEPT !.type = "TEXT", !.text = text, !.decorations = decorations]

deco(deco_type, url) == [type |-> deco_type, url |-> url]

paragraph(text_nodes) == [NodeBase EXCEPT !.type = "PARAGRAPH", !.nodes = text_nodes]

heading(level, text_nodes) ==
    [NodeBase EXCEPT !.type = "HEADING",
                     !.level = PyInt(Max(1, Min(6, level))),
                     !.nodes = text_nodes]

blockquote(ns) == [NodeBase EXCEPT !.type = "BLOCKQUOTE", !.nodes = ns]

divider == [NodeBase EXCEPT !.type = "DIVIDER"]

code_block(text) == [NodeBase EXCEPT !.type = "CODE_BLOCK", !.nodes = <<text_node(text, <<>>)>>]

list_container(ordered, items) ==
    [NodeBase EXCEPT !.type = IF ordered THEN "ORDERED_LIST" ELSE "BULLETED_LIST",
                     !.nodes = items]

list_item(ns) == [NodeBase EXCEPT !.type = "LIST_ITEM", !.nodes = ns]

image_node_wix_media(media_id, caption) ==
    [NodeBase EXCEPT !.type = "IMAGE", !.src_id = media_id, !.caption = caption]

html_block(raw_html) == [NodeBase EXCEPT !.type = "HTML", !.html = raw_html]

\* rows: sequence of rows, each a sequence of cell texts
table_node_simple(rows, header_rows) ==
    [NodeBase EXCEPT
        !.type = "TABLE",
        !.rows = [r \in DOMAIN rows |->
                    [c \in DOMAIN rows[r] |-> <<paragraph(<<text_node(rows[r][c], <<>>)>>)>>]],
        !.headerRows = Max(0, header_rows)]

doc(ns) == [nodes |-> ns]

\* ------------------------------------------------------------------------
\* ricos_schema.py: validate_ricos
\* ------------------------------------------------------------------------
\* A list entry that is not a dict
NotADict == [NodeBase EXCEPT !.type = "#notdict"]
\* A 'nodes' value that is not a list
NotAList == <<[NodeBase EXCEPT !.type = "#notlist"]>>

LevelValid(lvl) == lvl.ty = "int" /\ lvl.v >= 1 /\ lvl.v <= 6

\* (variant: the range test lets level 0 through)
validate_node_lower_bound(n) ==
    IF n.type = "HEADING" /\ ~(n.level.ty = "int" /\ n.level.v >= 0 /\ n.level.v <= 6)
    THEN [n EXCEPT !.level = PyInt(1)]
    ELSE n

\* the node object n after the loop body ran on it (n["level"] = 1 is an in-place write)
validate_node(n) ==
    IF n.type = "HEADING" /\ ~LevelValid(n.level)
    THEN [n EXCEPT !.level = PyInt(1)]
    ELSE n

\* (variant: a stray TEXT node is appended as it is)
validate_ricos_unwrapped(document) ==
    LET ns == document.nodes IN
    IF ns = NotAList THEN [out |-> doc(<<>>), seen |-> ns]
    ELSE [out |-> doc([i \in DOMAIN ns |-> validate_node(ns[i])]), seen |-> ns]

\* [out: the returned document, seen: the caller's node list after the call]
validate_ricos(document) ==
    LET ns == document.nodes IN
    IF ns = NotAList THEN [out |-> doc(<<>>), seen |-> ns]
    ELSE LET dicts == SelectSeq(ns, LAMBDA n : n # NotADict)
             fixed == [i \in DOMAIN dicts |->
                          IF dicts[i].type = "TEXT"
                          THEN paragraph(<<validate_node(dicts[i])>>)
                          ELSE validate_node(dicts[i])]
         IN  [out |-> doc(fixed),
              seen |-> [i \in DOMAIN ns |-> IF ns[i] = NotADict THEN ns[i] ELSE validate_node(ns[i])]]

\* ------------------------------------------------------------------------
\* ricos_local.py: the image importer callback
\* ------------------------------------------------------------------------
\* image_importer is "none" (not configured), "resolves", "returns_none" or "raises"
ImporterModes == {"none", "resolves", "returns_none", "raises"}

MediaId(src) == <<"media:">> \o src

\* outcome of image_importer(src): [id: the returned id or <<>> for None, exc: it raised]
call_importer(src) ==
    CASE image_importer = "resolves" -> [id |-> MediaId(src), exc |-> FALSE]
      [] image_importer = "returns_none" -> [id |-> <<>>, exc |-> FALSE]
      [] OTHER -> [id |-> <<>>, exc |-> TRUE]

\* (variant: the call is not wrapped in try/except)
import_unguarded(src) == call_importer(src)

\* try: media_id = image_importer(src) / except Exception: media_id = None
import_guarded(src) ==
    LET r == call_importer(src) IN IF r.exc THEN [id |-> <<>>, exc |-> FALSE] ELSE r

\* ------------------------------------------------------------------------
\* ricos_local.py: build_inline_from_nodes
\* ------------------------------------------------------------------------
\* the decoration an inline tag adds to new_active (<<>> when it adds none)
tag_decoration(child) ==
    CASE child.name \in {"strong", "b"} -> <<deco("BOLD", <<>>)>>
      [] child.name \in {"em", "i"} -> <<deco("ITALIC", <<>>)>>
      [] child.name = "u" -> <<deco("UNDERLINE", <<>>)>>
      [] child.name \in {"s", "strike", "del"} -> <<deco("STRIKETHROUGH", <<>>)>>
      [] child.name = "code" -> <<deco("CODE", <<>>)>>
      [] child.name = "a" /\ child.href # <<>> -> <<deco("LINK", child.href)>>
      [] OTHER -> <<>>

\* flush_text: the runs appended to parts for the string s
flush_text(s, active) ==
    LET run(n) == IF strip(n) # <<>> THEN <<text_node(n, active)>> ELSE <<>>
    IN  run(normalize_ws(s))

\* f"[Imagem: {alt}] {src}".strip()
image_placeholder(alt, src) == strip(<<"[Imagem:", " ">> \o alt \o <<"]", " ">> \o src)

NoInline == [parts |-> <<>>, deferred |-> <<>>, exc |-> FALSE, active |-> <<>>]

\* (variant: new_active is the caller's list itself, not a copy)
new_active_aliased(active, added) == [list |-> active \o added, aliased |-> TRUE]

\* new_active = active.copy(), then new_active.append(deco(...)):
\* [list: the list handed to the recursion, aliased: it is the caller's list object]
new_active(active, added) == [list |-> active \o added, aliased |-> FALSE]

\* [parts: the returned runs, deferred: nodes appended to deferred_blocks, exc: an exception
\*  escaped, active: the content of the caller's `active` list object after the call]
RECURSIVE build_inline_from_nodes(_, _)
RECURSIVE inline_child(_, _)
inline_child(child, active) ==
    IF IsString(child)
    THEN [NoInline EXCEPT !.parts = flush_text(child.text, active), !.active = active]
    ELSE IF child.name = "br"
    THEN [NoInline EXCEPT !.parts = <<text_node(<<"\n">>, active)>>, !.active = active]
    ELSE IF child.name = "img" THEN
        LET image(alt, src, imp, placeholder) ==
                IF image_importer # "none" /\ src # <<>>
                THEN IF imp.exc THEN [NoInline EXCEPT !.exc = TRUE, !.active = active]
                     ELSE IF imp.id # <<>>
                          THEN [NoInline EXCEPT !.deferred = <<image_node_wix_media(imp.id, alt)>>,
                                                !.active = active]
                          ELSE placeholder
                ELSE placeholder
            with_alt(alt) ==
                image(alt, child.src, import_guarded(child.src),
                      [NoInline EXCEPT !.parts = flush_text(image_placeholder(alt, child.src), active),
                                       !.active = active])
        IN  with_alt(IF child.alt # <<>> THEN child.alt ELSE <<"imagem">>)
    ELSE LET after(na, r) == [r EXCEPT !.active = IF na.aliased THEN r.active ELSE active]
             recurse(na) == after(na, build_inline_from_nodes(child.kids, na.list))
         IN  recurse(new_active(active, tag_decoration(child)))
build_inline_from_nodes(children, active) ==
    IF children = <<>> THEN [NoInline EXCEPT !.active = active]
    ELSE LET both(here, rest) ==
                 [parts |-> here.parts \o rest.parts,
                  deferred |-> here.deferred \o rest.deferred,
                  exc |-> rest.exc,
                  active |-> rest.active]
             then(here) ==
                 IF here.exc THEN here
                 ELSE both(here, build_inline_from_nodes(Tail(children), here.active))
         IN  then(inline_child(Head(children), active))

build_inline(node, active) == build_inline_from_nodes(node.kids, active)

\* ------------------------------------------------------------------------
\* ricos_local.py: handle_block
\* ------------------------------------------------------------------------
HeadingTags == {"h1", "h2", "h3", "h4", "h5", "h6"}
TableTags == {"table", "thead", "tbody", "tr", "td", "th", "figure", "figcaption"}

\* int(name[1])
heading_level(name) ==
    CASE name = "h1" -> 1 [] name = "h2" -> 2 [] name = "h3" -> 3
      [] name = "h4" -> 4 [] name = "h5" -> 5 [] OTHER -> 6

NoBlock == [nodes |-> <<>>, exc |-> FALSE]
Raised == [nodes |-> <<>>, exc |-> TRUE]

\* paragraph of the element's flattened text, if it has any
text_fallback(el) ==
    LET block(txt) ==
            IF txt # <<>> THEN [NoBlock EXCEPT !.nodes = <<paragraph(<<text_node(txt, <<>>)>>)>>]
            ELSE NoBlock
    IN  block(get_text(el, <<" ">>, TRUE))

\* rows built in table_mode "plugin": one per direct <tr> that has direct cells
plugin_rows(el) ==
    LET trs == find_all_direct(el, {"tr"})
        cells(tr) == LET cs == find_all_direct(tr, {"td", "th"})
                     IN  [c \in DOMAIN cs |-> get_text(cs[c], <<" ">>, TRUE)]
        all == [i \in DOMAIN trs |-> cells(trs[i])]
    IN  SelectSeq(all, LAMBDA r : r # <<>>)

\* header_rows = 1 if first_row and first_row.find("th") else 0
plugin_header_rows(el) ==
    LET header(first_row) ==
            IF first_row # <<>> /\ find(first_row[1], "th") # <<>> THEN 1 ELSE 0
    IN  header(find(el, "tr"))

\* the table branch once no image short-circuited it
table_block(el) ==
    LET block(rows, fallback) ==
            IF el.name = "table"
            THEN IF table_mode = "html"
                 THEN [NoBlock EXCEPT !.nodes = <<html_block(Serialize(el))>>]
                 ELSE IF table_mode = "plugin" /\ rows # <<>>
                      THEN [NoBlock EXCEPT !.nodes =
                                <<table_node_simple(rows, plugin_header_rows(el))>>]
                      ELSE fallback
            ELSE fallback
    IN  block(plugin_rows(el), text_fallback(el))

\* (variant: the deferred nodes are emitted before the paragraph)
deferred_then_paragraph(r) ==
    r.deferred \o (IF r.parts # <<>> THEN <<paragraph(r.parts)>> ELSE <<>>)

\* if parts: nodes.append(paragraph(parts)) / nodes.extend(deferred)
paragraph_then_deferred(r) ==
    (IF r.parts # <<>> THEN <<paragraph(r.parts)>> ELSE <<>>) \o r.deferred

\* [nodes: what the call appends to nodes, exc: an exception escaped]
handle_block(el) ==
    LET para(r) ==
            IF r.exc THEN Raised
            ELSE [NoBlock EXCEPT !.nodes = paragraph_then_deferred(r)]
        head(r) ==
            IF r.exc THEN Raised
            ELSE [NoBlock EXCEPT !.nodes = <<heading(heading_level(el.name), r.parts)>>]
        kept_items(rs) == SelectSeq(rs, LAMBDA r : r.parts # <<>>)
        list_items(kept) == [i \in DOMAIN kept |-> list_item(<<paragraph(kept[i].parts)>>)]
        list_of(rs, items) ==
            IF \E i \in DOMAIN rs : rs[i].exc THEN Raised
            ELSE IF items # <<>>
                 THEN [NoBlock EXCEPT !.nodes = <<list_container(el.name = "ol", items)>>]
                 ELSE NoBlock
        list_runs(rs) == list_of(rs, list_items(kept_items(rs)))
        list(lis) == list_runs([i \in DOMAIN lis |-> build_inline(lis[i], <<>>)])
        quote(r) ==
            IF r.exc THEN Raised
            ELSE IF r.parts # <<>>
                 THEN [NoBlock EXCEPT !.nodes = <<blockquote(<<paragraph(r.parts)>>)>>]
                 ELSE NoBlock
        pre_text(code_child) ==
            IF code_child # <<>>
            THEN get_text(code_child[1], <<"\n">>, FALSE)
            ELSE get_text(el, <<"\n">>, FALSE)
        imported(img, imp, table) ==
            IF imp.exc THEN Raised
            ELSE IF imp.id # <<>>
                 THEN [NoBlock EXCEPT !.nodes = <<image_node_wix_media(imp.id, img[1].alt)>>]
                 ELSE table
        table_family(img, table) ==
            IF img # <<>> /\ image_importer # "none" /\ img[1].src # <<>>
            THEN imported(img, import_guarded(img[1].src), table)
            ELSE table
    IN
    CASE el.name \in {"p", "span", "div", "section"} -> para(build_inline(el, <<>>))
      [] el.name \in HeadingTags -> head(build_inline(el, <<>>))
      [] el.name \in {"ul", "ol"} -> list(find_all_direct(el, {"li"}))
      [] el.name = "blockquote" -> quote(build_inline(el, <<>>))
      [] el.name = "hr" -> [NoBlock EXCEPT !.nodes = <<divider>>]
      [] el.name = "pre" ->
            [NoBlock EXCEPT !.nodes = <<code_block(normalize_ws(pre_text(find(el, "code"))))>>]
      [] el.name \in TableTags -> table_family(find(el, "img"), table_block(el))
      [] el.name = "iframe" ->
            IF el.src # <<>>
            THEN [NoBlock EXCEPT !.nodes =
                    <<paragraph(<<text_node(<<"[Embed]", " ">> \o el.src, <<>>)>>)>>]
            ELSE NoBlock
      [] OTHER -> text_fallback(el)

\* ------------------------------------------------------------------------
\* ricos_local.py: top-level traversal
\* ------------------------------------------------------------------------
InlineTags == {"span", "a", "strong", "b", "em", "i", "u", "s", "strike", "del", "code", "img", "br"}

is_inline_tag(t) == t \in InlineTags

\* [nodes: what flush_inline_run appends to nodes, exc]; inline_run is emptied by the caller
flush_inline_run(run) ==
    IF run = <<>> THEN NoBlock
    ELSE LET para(r) ==
                 IF r.exc THEN Raised
                 ELSE [NoBlock EXCEPT !.nodes =
                         (IF r.parts # <<>> THEN <<paragraph(r.parts)>> ELSE <<>>) \o r.deferred]
         IN  para(build_inline_from_nodes(run, <<>>))

\* ------------------------------------------------------------------------
\* Inputs: the direct children of the parsed root (after the [caption] and
\* script/style preprocessing), drawn from small sets
\* ------------------------------------------------------------------------
X == <<"X">>          \* an image URL
A == <<"A">>          \* an alt text
U == <<"U">>          \* a link / embed URL

ImgXA == Img(X, A)

BlankStrings == {Txt(<<" ">>), Txt(<<"\n", "\n">>)}
TextStrings == {Txt(<<"t">>)}

InlineElements ==
    { El("span", <<Txt(<<"a">>)>>),
      Anchor(U, <<Txt(<<"b">>)>>),
      El("b", <<El("strong", <<Txt(<<"x">>)>>)>>),
      ImgXA }

TableHA == El("table", <<El("tr", <<El("th", <<Txt(<<"H">>)>>)>>),
                         El("tr", <<El("td", <<Txt(<<"A">>)>>)>>)>>)
TableBody == El("table", <<El("tbody", <<El("tr", <<El("td", <<Txt(<<"A">>)>>)>>)>>)>>)
TableTdTh == El("table", <<El("tr", <<El("td", <<Txt(<<"A">>)>>), El("th", <<Txt(<<"H">>)>>)>>)>>)
TableImg == El("table", <<El("tr", <<El("td", <<ImgXA, Txt(<<"c">>)>>)>>)>>)
TableEmptyRow == El("table", <<El("tr", <<>>), El("tr", <<El("td", <<Txt(<<"A">>)>>)>>)>>)

NestedList == El("ul", <<El("li", <<Txt(<<"a">>), El("ul", <<El("li", <<Txt(<<"b">>)>>)>>)>>)>>)

BlockElements ==
    { El("p", <<Txt(<<"c">>), El("i", <<El("em", <<Txt(<<"x">>)>>), Txt(<<"y">>)>>), Txt(<<"z">>), ImgXA>>),
      El("p", <<Txt(<<"NBSP">>), El("br", <<>>)>>),
      El("div", <<ImgXA>>),
      El("h2", <<Txt(<<"t">>), ImgXA>>),
      NestedList,
      El("ol", <<El("li", <<ImgXA>>), El("li", <<Txt(<<" ">>)>>)>>),
      El("blockquote", <<Txt(<<"q">>), ImgXA>>),
      El("figure", <<ImgXA, El("figcaption", <<Txt(<<"c">>)>>)>>),
      El("figure", <<ImgXA>>),
      TableHA, TableBody, TableTdTh, TableImg, TableEmptyRow,
      El("hr", <<>>),
      El("pre", <<El("code", <<Txt(<<"l", "\n", "m">>)>>)>>),
      Iframe(U),
      El("video", <<>>),
      El("article", <<Txt(<<"w">>)>>) }

TableModes == {"html", "plugin", "paragraphs"}

\* ------------------------------------------------------------------------
\* Idle values of the components a specification does not exercise
\* ------------------------------------------------------------------------
ConvIdle ==
    /\ image_importer = "none" /\ table_mode = "html" /\ html_arg = "str"
    /\ container = <<>> /\ inline_run = <<>> /\ nodes = <<>>
    /\ pc = "idle" /\ result = doc(<<>>)
ValIdle == v_arg = <<>> /\ v_in = <<>> /\ v_out = doc(<<>>) /\ v_pc = "idle"
RetryIdle ==
    /\ r_max = 1 /\ r_attempt = 0 /\ r_calls = 0 /\ r_outcomes = <<>>
    /\ r_slept = <<>> /\ r_pc = "idle" /\ r_raised = ""
LimIdle == l_rpm = 1 /\ l_last = 0 /\ l_clock = 0 /\ l_returns = <<>>
OrchIdle == o_enabled = FALSE /\ o_pc = "idle" /\ o_source = "" /\ o_doc = doc(<<>>)
TagsIdle == t_field = <<>> /\ t_out = <<>> /\ t_pc = "idle"
TermsIdle ==
    /\ g_labels = <<>> /\ g_existing = <<>> /\ g_term_map = {} /\ g_todo = <<>>
    /\ g_ids = <<>> /\ g_creates = <<>> /\ g_pc = "idle"
MigIdle ==
    /\ m_dry_run = FALSE /\ m_limit = PyNone /\ m_posts = <<>> /\ m_index = 0 /\ m_count = 0
    /\ m_member_id = "" /\ m_map = {} /\ m_default = FALSE /\ m_calls = {}
    /\ m_reports = <<>> /\ m_migrated = <<>> /\ m_pc = "idle"
ParIdle ==
    /\ p_input = <<>> /\ p_todo = <<>> /\ p_run = <<>> /\ p_nodes = <<>>
    /\ p_pc = <<>> /\ p_result = <<>>
DraftIdle ==
    /\ d_ricos = [kind |-> "idle", nodes |-> <<>>, other |-> 0]
    /\ d_after = [kind |-> "idle", nodes |-> <<>>, other |-> 0]
    /\ d_sent = <<>> /\ d_pc = "idle"
SharedIdle == k_pc = <<>> /\ k_now = <<>> /\ k_wake = <<>>
AuxIdle == TagsIdle /\ TermsIdle /\ MigIdle /\ ParIdle /\ DraftIdle /\ SharedIdle

\* ------------------------------------------------------------------------
\* convert_html_to_ricos_local as a state machine: one action per branch of
\* the loop over container.children, and one for the code after the loop
\* ------------------------------------------------------------------------
InitConv ==
    /\ image_importer \in ImporterModes
    /\ table_mode \in TableModes
    /\ html_arg \in {"None", "str"}
    /\ container = <<>>
    /\ inline_run = <<>>
    /\ nodes = <<>>
    /\ pc = "scan"
    /\ result = doc(<<>>)

Init == InitConv /\ ValIdle /\ RetryIdle /\ LimIdle /\ OrchIdle /\ AuxIdle

NumBlocks(cs) == Len(SelectSeq(cs, LAMBDA c : IsTag(c) /\ ~is_inline_tag(c.name)))

CanScan == pc = "scan" /\ html_arg = "str" /\ Len(container) < MaxChildren

\* (variant: a whitespace-only text child is skipped and the buffer is kept)
whitespace_skipped(run, f) == [run |-> run, nodes |-> <<>>, exc |-> FALSE]

\* else: flush_inline_run()   # whitespace boundary ends run
\* (f is what flush_inline_run gives on the buffer `run`)
whitespace_boundary(run, f) == [run |-> <<>>, nodes |-> f.nodes, exc |-> f.exc]

\* one iteration of `for child in container.children`:
\* [run: inline_run afterwards, nodes: what was appended to nodes, exc: it raised]
root_step(child, run) ==
    LET buffered == [run |-> Append(run, child), nodes |-> <<>>, exc |-> FALSE]
        block(f, h) ==
            IF f.exc THEN [run |-> <<>>, nodes |-> <<>>, exc |-> TRUE]
            ELSE [run |-> <<>>, nodes |-> f.nodes \o h.nodes, exc |-> h.exc]
        step(f) ==
            IF IsString(child)
            THEN IF strip(child.text) # <<>> THEN buffered ELSE whitespace_boundary(run, f)
            ELSE IF is_inline_tag(child.name) THEN buffered
                 ELSE block(f, handle_block(child))
    IN  step(flush_inline_run(run))

\* (variant: the function returns without the flush after the loop)
root_finish_unflushed(run, acc) ==
    [doc |-> validate_ricos(doc(acc)).out, nodes |-> acc, exc |-> FALSE]

\* the code after the loop: [doc: the returned document, nodes, exc]
root_finish(run, acc) ==
    LET returned(ns) == [doc |-> validate_ricos(doc(ns)).out, nodes |-> ns, exc |-> FALSE]
        finish(f) ==
            IF f.exc THEN [doc |-> doc(<<>>), nodes |-> acc, exc |-> TRUE]
            ELSE returned(acc \o f.nodes)
    IN  finish(flush_inline_run(run))

\* the whole loop on a list of children
RECURSIVE root_loop(_, _, _)
root_loop(children, run, acc) ==
    IF children = <<>> THEN root_finish(run, acc)
    ELSE LET next(st) ==
                 IF st.exc THEN [doc |-> doc(<<>>), nodes |-> acc, exc |-> TRUE]
                 ELSE root_loop(Tail(children), st.run, acc \o st.nodes)
         IN  next(root_step(Head(children), run))

\* convert_html_to_ricos_local on the parsed children of the root
convert_html_to_ricos_local(children) == root_loop(children, <<>>, <<>>)

Scan(child) ==
    /\ CanScan
    /\ container' = Append(container, child)
    /\ LET iteration(st) ==
               IF st.exc
               THEN pc' = "raised" /\ UNCHANGED <<nodes, inline_run>>
               ELSE pc' = pc /\ nodes' = nodes \o st.nodes /\ inline_run' = st.run
       IN  iteration(root_step(child, inline_run))
    /\ UNCHANGED <<image_importer, table_mode, html_arg, result>>
    /\ UNCHANGED other_than_conv

\* NavigableString child with non-blank text: buffered
ScanText(child) == IsString(child) /\ strip(child.text) # <<>> /\ Scan(child)

\* whitespace-only NavigableString child: ends the run
ScanWhitespace(child) == IsString(child) /\ strip(child.text) = <<>> /\ Scan(child)

\* inline tag child: buffered
ScanInline(child) == IsTag(child) /\ is_inline_tag(child.name) /\ Scan(child)

\* block-level child: flush the run, then handle_block
ScanBlock(child) ==
    /\ IsTag(child) /\ ~is_inline_tag(child.name)
    /\ NumBlocks(container) < MaxBlocks
    /\ Scan(child)

\* after the loop: flush the trailing run and return validate_ricos(doc(nodes))
Finish ==
    /\ pc = "scan"
    /\ LET returning(fin) ==
               IF fin.exc
               THEN pc' = "raised" /\ UNCHANGED <<nodes, inline_run, result>>
               ELSE /\ nodes' = fin.nodes
                    /\ inline_run' = <<>>
                    /\ result' = fin.doc
                    /\ pc' = "done"
       IN  returning(root_finish(inline_run, nodes))
    /\ UNCHANGED <<image_importer, table_mode, html_arg, container>>
    /\ UNCHANGED other_than_conv

Next ==
    \/ \E child \in TextStrings : ScanText(child)
    \/ \E child \in BlankStrings : ScanWhitespace(child)
    \/ \E child \in InlineElements : ScanInline(child)
    \/ \E child \in BlockElements : ScanBlock(child)
    \/ Finish

Spec == Init /\ [][Next]_vars

\* ------------------------------------------------------------------------
\* Observations on documents and inputs used by the properties
\* ------------------------------------------------------------------------
RECURSIVE flatten(_)
flatten(ss) == IF ss = <<>> THEN <<>> ELSE Head(ss) \o flatten(Tail(ss))

\* every TEXT node of a node list, at any depth (table cells included), in order
RECURSIVE text_runs(_)
text_runs(ns) ==
    IF ns = <<>> THEN <<>>
    ELSE LET n == Head(ns) IN
         (IF n.type = "TEXT" THEN <<n>>
          ELSE text_runs(n.nodes) \o text_runs(flatten(flatten(n.rows))))
         \o text_runs(Tail(ns))

Range(s) == {s[i] : i \in DOMAIN s}

\* every <img> of the input, at any depth
input_images == Range(find_all(El("#root", container), {"img"}))

BooleanDecorations == {"BOLD", "ITALIC", "UNDERLINE", "STRIKETHROUGH", "CODE"}

NoDuplicateDecoration(run) ==
    \A i, j \in DOMAIN run.decorations :
        (i # j /\ run.decorations[i].type \in BooleanDecorations)
            => run.decorations[i].type # run.decorations[j].type

KnownTypes == {"PARAGRAPH", "HEADING", "BULLETED_LIST", "ORDERED_LIST", "BLOCKQUOTE",
               "DIVIDER", "CODE_BLOCK", "IMAGE", "HTML", "TABLE"}

\* ------------------------------------------------------------------------
\* C1 - Totality of the local converter: a conversion never raises, can always
\* run to its return, returns a node list of block nodes, and returns the empty
\* node list for None / empty input.
\* ------------------------------------------------------------------------
C1_Totality ==
    /\ pc \in {"scan", "done"}
    /\ pc = "done" =>
        /\ result.nodes # NotAList
        /\ \A i \in DOMAIN result.nodes : result.nodes[i].type \in KnownTypes
        /\ container = <<>> => result.nodes = <<>>

\* a conversion whose importer raises on an image it was asked to import has returned
C1_Witness ==
    /\ pc = "done" /\ image_importer = "raises" /\ input_images # {}
    /\ result.nodes # <<>>

\* the empty / None input has been converted
C1_WitnessEmpty == pc = "done" /\ html_arg = "None" /\ result.nodes = <<>>

\* ------------------------------------------------------------------------
\* C2 - Decoration idempotence: no text run of the output carries the same
\* boolean decoration type twice.
\* ------------------------------------------------------------------------
C2_DecorationIdempotence ==
    pc = "done" => \A r \in Range(text_runs(result.nodes)) : NoDuplicateDecoration(r)

\* ------------------------------------------------------------------------
\* C3 - Image information preservation: with no importer configured, every
\* <img src=X alt=A> of the input has a text run containing both X and A.
\* ------------------------------------------------------------------------
C3_ImagePreserved ==
    (pc = "done" /\ image_importer = "none") =>
        \A img \in input_images :
            \E r \in Range(text_runs(result.nodes)) :
                Contains(r.text, img.src) /\ Contains(r.text, img.alt)

\* ------------------------------------------------------------------------
\* C4 - Top-level inline coalescing: inline siblings separated only by a
\* single space come out as exactly one PARAGRAPH holding every sibling's text.
\* ------------------------------------------------------------------------
SingleSpace == Txt(<<" ">>)

\* the root's children are text-bearing inline tags alternating with single spaces
InlineSiblingsCase ==
    /\ Len(container) >= 3 /\ Len(container) % 2 = 1
    /\ \A i \in DOMAIN container :
        IF i % 2 = 1
        THEN /\ IsTag(container[i]) /\ is_inline_tag(container[i].name)
             /\ container[i].name \notin {"img", "br"}
             /\ get_text(container[i], <<>>, TRUE) # <<>>
        ELSE container[i] = SingleSpace

run_text(ns) == flatten([i \in DOMAIN ns |-> ns[i].text])

C4_InlineCoalesce ==
    (pc = "done" /\ InlineSiblingsCase) =>
        /\ Len(result.nodes) = 1
        /\ result.nodes[1].type = "PARAGRAPH"
        /\ \A i \in DOMAIN container :
              i % 2 = 1 => Contains(run_text(result.nodes[1].nodes),
                                    get_text(container[i], <<>>, TRUE))

\* ------------------------------------------------------------------------
\* C5 - Table mode selection: a top-level <table> without images becomes one
\* HTML node containing "<table" in mode "html", and one TABLE node with one
\* row per <tr> in mode "plugin" (headerRows = 1 for a th-row then a td-row).
\* ------------------------------------------------------------------------
IsPlainTable(c) == IsTag(c) /\ c.name = "table" /\ find(c, "img") = <<>>

\* the nodes a document holds for the only block child of the input
OnlyBlockCase == Len(container) = 1 /\ IsPlainTable(container[1])

C5_TableModes ==
    (pc = "done" /\ OnlyBlockCase) =>
        /\ table_mode = "html" =>
              /\ Len(result.nodes) = 1
              /\ result.nodes[1].type = "HTML"
              /\ Contains(result.nodes[1].html, <<"<", "table">>)
        /\ table_mode = "plugin" =>
              /\ Len(result.nodes) = 1
              /\ result.nodes[1].type = "TABLE"
              /\ Len(result.nodes[1].rows) = Len(find_all(container[1], {"tr"}))
              /\ container[1] = TableHA =>
                    (Len(result.nodes[1].rows) = 2 /\ result.nodes[1].headerRows = 1)

\* ------------------------------------------------------------------------
\* C6 - Nested list preservation: an <li> holding text followed by a nested
\* list becomes a LIST_ITEM with a PARAGRAPH of the li's own text only, and the
\* nested list as a separate child node.
\* ------------------------------------------------------------------------
ListTags == {"ul", "ol"}
ListTypes == {"BULLETED_LIST", "ORDERED_LIST"}

own_text(li) == flatten([i \in DOMAIN li.kids |->
                    IF IsString(li.kids[i]) THEN strip(li.kids[i].text) ELSE <<>>])

HasNestedList(li) == own_text(li) # <<>> /\ find_all_direct(li, ListTags) # <<>>

IsNestingList(c) ==
    /\ IsTag(c) /\ c.name \in ListTags
    /\ find_all_direct(c, {"li"}) # <<>>
    /\ \A li \in Range(find_all_direct(c, {"li"})) : HasNestedList(li)

ItemPreservesNesting(li, item) ==
    /\ item.type = "LIST_ITEM"
    /\ item.nodes # <<>>
    /\ item.nodes[1].type = "PARAGRAPH"
    /\ run_text(item.nodes[1].nodes) = own_text(li)
    /\ \E m \in DOMAIN item.nodes :
          /\ item.nodes[m].type \in ListTypes
          /\ Len(item.nodes[m].nodes) = Len(find_all_direct(find_all_direct(li, ListTags)[1], {"li"}))

C6_NestedList ==
    (pc = "done" /\ Len(container) = 1 /\ IsNestingList(container[1])) =>
        /\ Len(result.nodes) = 1
        /\ result.nodes[1].type \in ListTypes
        /\ LET lis == find_all_direct(container[1], {"li"}) IN
           /\ Len(result.nodes[1].nodes) = Len(lis)
           /\ \A k \in DOMAIN lis : ItemPreservesNesting(lis[k], result.nodes[1].nodes[k])

\* ------------------------------------------------------------------------
\* validate_ricos called on synthetic documents
\* ------------------------------------------------------------------------
SyntheticLevels == {PyInt(n) : n \in {-1, 0, 1, 3, 6, 7, 9}} \cup {PyNone, PyStr}

SyntheticNodes ==
    {[NodeBase EXCEPT !.type = "HEADING", !.level = l] : l \in SyntheticLevels}
    \cup {paragraph(<<text_node(<<"t">>, <<>>)>>), text_node(<<"s">>, <<>>), NotADict}

RECURSIVE SeqsUpTo(_, _)
SeqsUpTo(S, n) ==
    IF n = 0 THEN {<<>>}
    ELSE LET shorter == SeqsUpTo(S, n - 1)
         IN  shorter \cup {Append(q, x) : q \in shorter, x \in S}

InitValidate ==
    /\ v_arg \in SeqsUpTo(SyntheticNodes, MaxNodes) \cup {NotAList}
    /\ v_in = v_arg
    /\ v_out = doc(<<>>)
    /\ v_pc = "call"
    /\ ConvIdle /\ RetryIdle /\ LimIdle /\ OrchIdle /\ AuxIdle

Validate ==
    /\ v_pc = "call"
    /\ LET r == validate_ricos([nodes |-> v_in]) IN
       /\ v_out' = r.out
       /\ v_in' = r.seen
    /\ v_pc' = "done"
    /\ UNCHANGED v_arg
    /\ UNCHANGED other_than_val

NextValidate == Validate

SpecValidate == InitValidate /\ [][NextValidate]_vars

\* ------------------------------------------------------------------------
\* C7 - Heading level normalisation: after validate_ricos every top-level
\* HEADING has an integer level in 1..6; an invalid level became 1 and a valid
\* level is kept.
\* ------------------------------------------------------------------------
arg_dicts == IF v_arg = NotAList THEN <<>> ELSE SelectSeq(v_arg, LAMBDA n : n # NotADict)

C7_HeadingLevels ==
    v_pc = "done" =>
        /\ \A i \in DOMAIN v_out.nodes :
              v_out.nodes[i].type = "HEADING" => LevelValid(v_out.nodes[i].level)
        /\ Len(v_out.nodes) = Len(arg_dicts)
        /\ \A i \in DOMAIN arg_dicts :
              arg_dicts[i].type = "HEADING" =>
                  /\ v_out.nodes[i].type = "HEADING"
                  /\ v_out.nodes[i].level =
                        IF LevelValid(arg_dicts[i].level) THEN arg_dicts[i].level ELSE PyInt(1)

\* a heading built with level 9 came out with level 1, next to one that kept level 3
C7_Witness ==
    /\ v_pc = "done"
    /\ \E i, j \in DOMAIN arg_dicts :
          /\ arg_dicts[i].type = "HEADING" /\ arg_dicts[i].level = PyInt(9)
          /\ v_out.nodes[i].level = PyInt(1)
          /\ arg_dicts[j].type = "HEADING" /\ arg_dicts[j].level = PyInt(3)
          /\ v_out.nodes[j].level = PyInt(3)

\* ------------------------------------------------------------------------
\* wix_migrator.py: with_retries.  One action per call of fn, by its outcome.
\* Delays are in tenths of a second.
\* ------------------------------------------------------------------------
DefaultBaseDelay == 7
RetryableStatuses == {429, 500, 502, 503, 504}
ErrorStatuses == RetryableStatuses \cup {400, 404, 501}

\* Retry-After of an error response: absent, delta-seconds, or an HTTP-date
RetryAfterForms == {"absent", "seconds", "date"}
RetryAfterSeconds == 30

RECURSIVE Pow2(_)
Pow2(n) == IF n = 0 THEN 1 ELSE 2 * Pow2(n - 1)

\* (variant: the last-attempt test is off by one)
attempts_exhausted_late(attempt, max_attempts) == attempt >= max_attempts

\* attempt >= max_attempts - 1
attempts_exhausted(attempt, max_attempts) == attempt >= max_attempts - 1

\* (variant: an exhausted or non-retryable HTTP error hands back e.response)
http_error_exit_returns == "returned"

\* the bare raise of the HTTPError handler
http_error_exit == "raised"

\* base_delay * (2 ** attempt)
backoff(attempt) == DefaultBaseDelay * Pow2(attempt)

RetryStep(outcome) ==
    /\ r_pc = "loop"
    /\ r_calls' = r_calls + 1
    /\ r_outcomes' = Append(r_outcomes, outcome)
    /\ UNCHANGED r_max

\* fn() returns a response whose raise_for_status() passes
AttemptOk ==
    /\ RetryStep([kind |-> "ok", status |-> 200, retry_after |-> "absent"])
    /\ r_pc' = "returned"
    /\ UNCHANGED <<r_attempt, r_slept, r_raised>>
    /\ UNCHANGED <<conv_vars, val_vars, lim_vars, orch_vars, aux_vars>>

\* raise_for_status() raises requests.HTTPError
AttemptHttpError(status, retry_after) ==
    /\ RetryStep([kind |-> "http", status |-> status, retry_after |-> retry_after])
    /\ IF status \notin RetryableStatuses \/ attempts_exhausted(r_attempt, r_max)
       THEN /\ r_pc' = http_error_exit
            /\ r_raised' = "HTTPError"
            /\ UNCHANGED <<r_attempt, r_slept>>
       ELSE IF retry_after = "date"
            THEN \* float(retry_after) raises ValueError inside the handler
                 /\ r_pc' = "raised"
                 /\ r_raised' = "ValueError"
                 /\ UNCHANGED <<r_attempt, r_slept>>
            ELSE /\ r_slept' = Append(r_slept, IF retry_after = "seconds"
                                                THEN RetryAfterSeconds
                                                ELSE backoff(r_attempt))
                 /\ r_attempt' = r_attempt + 1
                 /\ UNCHANGED <<r_pc, r_raised>>
    /\ UNCHANGED <<conv_vars, val_vars, lim_vars, orch_vars, aux_vars>>

\* fn() raises a requests.RequestException that is not an HTTPError
AttemptTransportError ==
    /\ RetryStep([kind |-> "transport", status |-> 0, retry_after |-> "absent"])
    /\ IF attempts_exhausted(r_attempt, r_max)
       THEN /\ r_pc' = "raised"
            /\ r_raised' = "RequestException"
            /\ UNCHANGED <<r_attempt, r_slept>>
       ELSE /\ r_slept' = Append(r_slept, backoff(r_attempt))
            /\ r_attempt' = r_attempt + 1
            /\ UNCHANGED <<r_pc, r_raised>>
    /\ UNCHANGED <<conv_vars, val_vars, lim_vars, orch_vars, aux_vars>>

\* fn() raises an exception outside the requests hierarchy: no handler matches
AttemptOtherError ==
    /\ RetryStep([kind |-> "other", status |-> 0, retry_after |-> "absent"])
    /\ r_pc' = "raised"
    /\ r_raised' = "Exception"
    /\ UNCHANGED <<r_attempt, r_slept>>
    /\ UNCHANGED <<conv_vars, val_vars, lim_vars, orch_vars, aux_vars>>

InitRetry ==
    /\ r_max \in 1..MaxAttempts
    /\ r_attempt = 0 /\ r_calls = 0 /\ r_outcomes = <<>> /\ r_slept = <<>>
    /\ r_pc = "loop" /\ r_raised = ""
    /\ ConvIdle /\ ValIdle /\ LimIdle /\ OrchIdle /\ AuxIdle

NextRetry ==
    \/ AttemptOk
    \/ \E status \in ErrorStatuses, ra \in RetryAfterForms : AttemptHttpError(status, ra)
    \/ AttemptTransportError
    \/ AttemptOtherError

SpecRetry == InitRetry /\ [][NextRetry]_vars

C9_WitnessReturn == r_pc = "returned" /\ r_calls > 1

\* ------------------------------------------------------------------------
\* wix_migrator.py: RateLimiter, called sequentially.  Time is in seconds;
\* sleep_fn advances the clock by exactly the requested amount.
\* ------------------------------------------------------------------------
Minute == 60
RpmArgs == {0, 1, 2, 3, 4, 6}

\* self.rpm = max(1, rpm)
limiter_rpm(rpm) == Max(1, rpm)

\* self.interval = 60.0 / float(self.rpm)
interval == Minute \div l_rpm

\* the amount handed to sleep_fn (0: sleep_fn is not called)
wait_sleep(now, last) == IF now - last < interval THEN interval - (now - last) ELSE 0

\* (variant: _last records the time read before sleeping)
wait_last_before_sleep(now, slept) == now

\* self._last = time_fn(), read after the sleep
wait_last(now, slept) == now + slept

InitLimiter ==
    /\ l_rpm \in {limiter_rpm(r) : r \in RpmArgs}
    /\ l_last = 0
    /\ l_clock \in 0..MaxTick
    /\ l_returns = <<>>
    /\ ConvIdle /\ ValIdle /\ RetryIdle /\ OrchIdle /\ AuxIdle

\* time passes between two calls
Tick(d) ==
    /\ l_clock < MaxClock
    /\ l_clock' = l_clock + d
    /\ UNCHANGED <<l_rpm, l_last, l_returns>>
    /\ UNCHANGED other_than_lim

\* one whole call of wait()
Wait ==
    /\ Len(l_returns) < MaxCalls
    /\ LET now == l_clock
           slept == wait_sleep(now, l_last)
       IN  /\ l_clock' = now + slept
           /\ l_last' = wait_last(now, slept)
           /\ l_returns' = Append(l_returns, now + slept)
    /\ UNCHANGED l_rpm
    /\ UNCHANGED other_than_lim

NextLimiter ==
    \/ \E d \in 1..MaxTick : Tick(d)
    \/ Wait

SpecLimiter == InitLimiter /\ [][NextLimiter]_vars

\* ------------------------------------------------------------------------
\* C10 - Rate limiting: two consecutive sequential wait() calls return at
\* least interval = 60/rpm apart, so no more than rpm calls return within any
\* one-minute window.
\* ------------------------------------------------------------------------
C10_RateLimit ==
    /\ \A i \in 1..(Len(l_returns) - 1) : l_returns[i + 1] - l_returns[i] >= interval
    /\ \A i, j \in DOMAIN l_returns :
          (i <= j /\ l_returns[j] - l_returns[i] < Minute) => j - i + 1 <= l_rpm

\* a call that arrived early slept and returned exactly one interval after the previous one
C10_Witness ==
    /\ Len(l_returns) >= 2 /\ l_rpm > 1
    /\ l_returns[2] - l_returns[1] = interval
    /\ l_clock = l_returns[Len(l_returns)]

\* ------------------------------------------------------------------------
\* Remote-First Orchestrator (spec section 4.8).  The retry loop is
\* with_retries above; the local converter is convert_html_to_ricos_local.
\* ------------------------------------------------------------------------
\* inputs of the orchestrated conversion: the parsed children of the html
OrchInputs ==
    { <<>>,
      <<El("span", <<Txt(<<"a">>)>>), Txt(<<" ">>), Anchor(U, <<Txt(<<"b">>)>>)>>,
      <<El("p", <<Txt(<<"c">>), ImgXA>>)>>,
      <<TableHA, Txt(<<"t">>)>> }

\* the document a well-formed remote response carries
RemoteDoc == doc(<<paragraph(<<text_node(<<"remote">>, <<>>)>>)>>)

\* response shapes: {document:{nodes}}, a bare {nodes}, or anything else
ResponseShapes == {"document", "bare", "unexpected"}

\* the fallback of 4.8: run the local converter; [pc, source, doc]
orch_local(children) ==
    LET outcome(r) ==
            IF r.exc THEN [pc |-> "raised", source |-> "local", doc |-> doc(<<>>)]
            ELSE [pc |-> "done", source |-> "local", doc |-> r.doc]
    IN  outcome(convert_html_to_ricos_local(children))

\* what the orchestrator does with a response that with_retries returned
orch_on_response(shape, children) ==
    IF shape \in {"document", "bare"}
    THEN [pc |-> "done", source |-> "remote", doc |-> RemoteDoc]
    ELSE orch_local(children)

InitRemote ==
    /\ image_importer \in {"none", "resolves"}
    /\ table_mode \in {"html", "plugin"}
    /\ html_arg = "str"
    /\ container \in OrchInputs
    /\ inline_run = <<>> /\ nodes = <<>> /\ pc = "idle" /\ result = doc(<<>>)
    /\ o_enabled \in BOOLEAN
    /\ o_pc = "start" /\ o_source = "" /\ o_doc = doc(<<>>)
    /\ r_max \in 1..MaxAttempts
    /\ r_attempt = 0 /\ r_calls = 0 /\ r_outcomes = <<>> /\ r_slept = <<>>
    /\ r_pc = "idle" /\ r_raised = ""
    /\ ValIdle /\ LimIdle /\ AuxIdle

OrchSet(o) == o_pc' = o.pc /\ o_source' = o.source /\ o_doc' = o.doc

\* remote conversion disabled: delegate to the local converter
OrchLocalOnly ==
    /\ o_pc = "start" /\ ~o_enabled
    /\ OrchSet(orch_local(container))
    /\ UNCHANGED <<o_enabled, conv_vars, val_vars, retry_vars, lim_vars, aux_vars>>

\* remote conversion enabled: submit the html through the retry loop
OrchSubmit ==
    /\ o_pc = "start" /\ o_enabled
    /\ o_pc' = "remote"
    /\ r_pc' = "loop"
    /\ UNCHANGED <<o_enabled, o_source, o_doc, conv_vars, val_vars, lim_vars, aux_vars>>
    /\ UNCHANGED <<r_max, r_attempt, r_calls, r_outcomes, r_slept, r_raised>>

\* the retry loop returned a response
OrchResponse(shape) ==
    /\ o_pc = "remote" /\ r_pc = "returned"
    /\ OrchSet(orch_on_response(shape, container))
    /\ UNCHANGED <<o_enabled, conv_vars, val_vars, retry_vars, lim_vars, aux_vars>>

\* the retry loop raised: exhausted retries or a transport error
OrchRemoteFailed ==
    /\ o_pc = "remote" /\ r_pc = "raised"
    /\ OrchSet(orch_local(container))
    /\ UNCHANGED <<o_enabled, conv_vars, val_vars, retry_vars, lim_vars, aux_vars>>

NextRemote ==
    \/ OrchLocalOnly
    \/ OrchSubmit
    \/ AttemptOk
    \/ \E status \in ErrorStatuses, ra \in RetryAfterForms : AttemptHttpError(status, ra)
    \/ AttemptTransportError
    \/ AttemptOtherError
    \/ \E shape \in ResponseShapes : OrchResponse(shape)
    \/ OrchRemoteFailed

SpecRemote == InitRemote /\ [][NextRemote]_vars

\* ------------------------------------------------------------------------
\* C8 - Remote fallback: with remote conversion enabled and every remote
\* attempt failing, the orchestrator raises nothing and returns the document
\* the local converter returns for the same html.
\* ------------------------------------------------------------------------
EveryAttemptFailed ==
    r_calls >= 1 /\ \A i \in DOMAIN r_outcomes : r_outcomes[i].kind # "ok"

ParagraphLike == {"p", "div", "section", "span"}

\* a paragraph-like block with text and exactly one <img> that has a src
TextAndImageBlock(c) ==
    /\ IsTag(c) /\ c.name \in ParagraphLike /\ ~is_inline_tag(c.name)
    /\ get_text(c, <<>>, TRUE) # <<>>
    /\ Len(find_all(c, {"img"})) = 1
    /\ find(c, "img")[1].src # <<>>

LastChild == container[Len(container)]

PlaceholderFor(img, ns) ==
    \E r \in Range(text_runs(ns)) :
        Contains(r.text, <<"[Imagem:">>) /\ Contains(r.text, img.src)

C12_ImporterFailureAbsorbed ==
    /\ pc # "raised"
    /\ (pc = "done" /\ image_importer \in {"raises", "returns_none"}) =>
          \A img \in input_images : img.src # <<>> => PlaceholderFor(img, result.nodes)

\* ------------------------------------------------------------------------
\* C13 - Last-resort fallback: once the loop has handled a top-level block tag
\* that handle_block has no branch for, the last node is one HTML node holding
\* the element's serialized markup, also when the element has no text.
\* ------------------------------------------------------------------------
DispatchedTags ==
    {"p", "span", "div", "section", "ul", "ol", "blockquote", "hr", "pre", "iframe"}
        \cup HeadingTags \cup TableTags

UnknownBlock(c) == IsTag(c) /\ ~is_inline_tag(c.name) /\ c.name \notin DispatchedTags

C13_LastResortFallback ==
    (pc = "scan" /\ container # <<>> /\ UnknownBlock(LastChild)) =>
        /\ nodes # <<>>
        /\ Len(container) = 1 => Len(nodes) = 1
        /\ nodes[Len(nodes)].type = "HTML"
        /\ nodes[Len(nodes)].html = Serialize(LastChild)

C14_WitnessNotAList == v_pc = "done" /\ v_arg = NotAList /\ v_out = doc(<<>>)

\* ------------------------------------------------------------------------
\* C15 - Node identifiers: every node that heading(), paragraph() or
\* image_node_wix_media() built for the returned document has a non-empty 'id',
\* and no two of them have the same 'id'.
\* ------------------------------------------------------------------------
IdentifiedTypes == {"HEADING", "PARAGRAPH", "IMAGE"}

C15_NodeIds ==
    pc = "done" =>
        /\ \A i \in DOMAIN result.nodes :
              result.nodes[i].type \in IdentifiedTypes => result.nodes[i].id # <<>>
        /\ \A i, j \in DOMAIN result.nodes :
              (i # j /\ result.nodes[i].type \in IdentifiedTypes
                     /\ result.nodes[j].type \in IdentifiedTypes)
                  => result.nodes[i].id # result.nodes[j].id

\* ------------------------------------------------------------------------
\* utils/tags.py: parse_tags_field.  A field is a sequence of characters;
\* "&amp;" stands for that HTML entity.
\* ------------------------------------------------------------------------
TagChars == {"a", "A", "b", " ", "|", ",", "&amp;"}

\* str.lower()
lower_char(c) == IF c = "A" THEN "a" ELSE c
lower(s) == [i \in DOMAIN s |-> lower_char(s[i])]

\* html.unescape
unescape(s) == [i \in DOMAIN s |-> IF s[i] = "&amp;" THEN "&" ELSE s[i]]

\* str.split(sep): the parts between the separators, empty ones included
RECURSIVE split_from(_, _, _)
split_from(s, sep, cur) ==
    IF s = <<>> THEN <<cur>>
    ELSE IF Head(s) = sep THEN <<cur>> \o split_from(Tail(s), sep, <<>>)
         ELSE split_from(Tail(s), sep, Append(cur, Head(s)))
split(s, sep) == split_from(s, sep, <<>>)

\* re.sub(r"\s+", " ", text)
RECURSIVE collapse_ws(_)
collapse_ws(s) ==
    IF s = <<>> THEN <<>>
    ELSE IF Head(s) \in Whitespace THEN <<" ">> \o collapse_ws(lstrip(s))
         ELSE <<Head(s)>> \o collapse_ws(Tail(s))

\* _normalize_label
normalize_label(value) ==
    IF value = <<>> THEN <<>> ELSE collapse_ws(strip(unescape(value)))

\* the separator parse_tags_field splits on
tags_separator(text) == IF Contains(text, <<"|">>) THEN "|" ELSE ","

\* (variant: a repeated label replaces the one seen first)
keep_label_last(res, label) ==
    IF label = <<>> THEN res
    ELSE Append(SelectSeq(res, LAMBDA l : lower(l) # lower(label)), label)

\* if label and key not in seen_lower: seen_lower.add(key); result.append(label)
keep_label(res, label) ==
    IF label # <<>> /\ \A i \in DOMAIN res : lower(res[i]) # lower(label)
    THEN Append(res, label)
    ELSE res

\* the loop over parts; seen_lower is the set of lower-cased labels of res
RECURSIVE tags_loop(_, _)
tags_loop(parts, res) ==
    IF parts = <<>> THEN res
    ELSE IF Head(parts) = <<>> THEN tags_loop(Tail(parts), res)
         ELSE tags_loop(Tail(parts), keep_label(res, normalize_label(Head(parts))))

tags_parts(text) ==
    LET stripped(ps) == [i \in DOMAIN ps |-> strip(ps[i])]
    IN  stripped(split(text, tags_separator(text)))

parse_tags_field(field) ==
    IF field = <<>> THEN <<>> ELSE tags_loop(tags_parts(strip(field)), <<>>)

RECURSIVE FieldsUpTo(_)
FieldsUpTo(n) ==
    IF n = 0 THEN {<<>>}
    ELSE LET longer(shorter) == shorter \cup {Append(q, c) : q \in shorter, c \in TagChars}
         IN  longer(FieldsUpTo(n - 1))

InitTags ==
    /\ t_field \in FieldsUpTo(MaxField)
    /\ t_out = <<>>
    /\ t_pc = "call"
    /\ ConvIdle /\ ValIdle /\ RetryIdle /\ LimIdle /\ OrchIdle /\ TermsIdle /\ MigIdle /\ ParIdle /\ DraftIdle /\ SharedIdle

ParseTags ==
    /\ t_pc = "call"
    /\ t_out' = parse_tags_field(t_field)
    /\ t_pc' = "done"
    /\ UNCHANGED t_field
    /\ UNCHANGED <<conv_vars, val_vars, retry_vars, lim_vars, orch_vars, terms_vars, mig_vars, par_vars, draft_vars, shared_vars>>

NextTags == ParseTags

SpecTags == InitTags /\ [][NextTags]_vars

\* ------------------------------------------------------------------------
\* C16 - Tag parsing: the field is split on "|" if it contains one, else on
\* ","; empty parts are dropped; the labels come in first-seen order, no two are
\* equal ignoring case, and each keeps the casing of its first occurrence.
\* ------------------------------------------------------------------------
\* the separator the field is to be split on
ExpectedSeparator == IF \E i \in DOMAIN t_field : t_field[i] = "|" THEN "|" ELSE ","

\* positions of t_field that start a part: 1 and every position after a separator
PartStarts == {1} \cup {i + 1 : i \in {j \in DOMAIN t_field : t_field[j] = ExpectedSeparator}}

\* the part starting at position i, up to the next separator
PartAt(i) ==
    LET stops == {j \in DOMAIN t_field : j >= i /\ t_field[j] = ExpectedSeparator}
        last == IF stops = {} THEN Len(t_field)
                ELSE (CHOOSE j \in stops : \A k \in stops : j <= k) - 1
    IN  SubSeq(t_field, i, last)

\* the label a part stands for: entities decoded, trimmed, inner whitespace single
LabelAt(i) == normalize_label(strip(PartAt(i)))

\* the start of the first part whose label equals l ignoring case
FirstStart(l) ==
    CHOOSE i \in PartStarts :
        /\ lower(LabelAt(i)) = lower(l)
        /\ \A k \in PartStarts : lower(LabelAt(k)) = lower(l) => i <= k

C16_TagParsing ==
    t_pc = "done" =>
        /\ \A i \in DOMAIN t_out : t_out[i] # <<>>
        /\ \A i, j \in DOMAIN t_out : i # j => lower(t_out[i]) # lower(t_out[j])
        /\ \A k \in PartStarts :
              LabelAt(k) # <<>> => \E i \in DOMAIN t_out : lower(t_out[i]) = lower(LabelAt(k))
        /\ \A i \in DOMAIN t_out :
              /\ \E k \in PartStarts : LabelAt(k) = t_out[i]
              /\ t_out[i] = LabelAt(FirstStart(t_out[i]))
        /\ \A i, j \in DOMAIN t_out : i < j => FirstStart(t_out[i]) < FirstStart(t_out[j])

\* a field with a repeated label in another casing, split on "|", has been parsed
C16_Witness ==
    /\ t_pc = "done"
    /\ t_field = <<"A", "|", "a", "|">>
    /\ t_out = << <<"A">> >>

\* a field without "|" has been split on ","
C16_WitnessComma == t_pc = "done" /\ t_field = <<"A", ",", "b", ",">> /\ t_out = << <<"A">>, <<"b">> >>

\* ------------------------------------------------------------------------
\* wix_migrator.py: get_or_create_terms.  A request made through
\* with_retries is seen by its outcome: a response, or an exception.
\* ------------------------------------------------------------------------
NoId == <<>>          \* a response object without an "id" (t.get("id") is None)

TermLabels == {<<"a">>, <<"A">>, <<"b">>, <<" ", "a">>, <<" ">>, <<>>}
TermIds == {<<"T1">>, <<"T2">>}

\* the outcomes that stand for an exception leaving with_retries or resp.json()
ListFailed == <<[label |-> <<"#raised">>, id |-> NoId]>>
CreateFailed == <<"#raised">>

\* what the list request can give: ListFailed, or the list of existing terms
ListOutcomes ==
    { ListFailed,
      <<>>,
      <<[label |-> <<"A">>, id |-> <<"T1">>]>>,
      <<[label |-> <<"a">>, id |-> <<"T1">>], [label |-> <<"b">>, id |-> <<"T1">>]>>,
      <<[label |-> <<"b">>, id |-> NoId]>> }

\* what a create request can give: CreateFailed, or the id of the created object (NoId if it has none)
CreateOutcomes == {CreateFailed} \cup TermIds \cup {NoId}

\* labels = [label.strip() for label in labels if label and label.strip()]
clean_labels(labels) ==
    LET stripped(ls) == [i \in DOMAIN ls |-> strip(ls[i])]
    IN  stripped(SelectSeq(labels, LAMBDA l : l # <<>> /\ strip(l) # <<>>))

\* term_map after `term_map[key] = id`
map_put(term_map, key, id) == {e \in term_map : e[1] # key} \cup {<<key, id>>}

\* { (t.get("label") or "").lower(): t.get("id") for t in existing }
RECURSIVE map_of(_)
map_of(existing) ==
    IF existing = <<>> THEN {}
    ELSE map_put(map_of(SubSeq(existing, 1, Len(existing) - 1)),
                 lower(existing[Len(existing)].label), existing[Len(existing)].id)

map_has(term_map, key) == \E e \in term_map : e[1] = key
map_get(term_map, key) == (CHOOSE e \in term_map : e[1] = key)[2]

\* (variant: the id is appended without the membership test)
ids_append_always(ids, term_id) == Append(ids, term_id)

\* if term_id not in ids: ids.append(term_id)
ids_append(ids, term_id) ==
    IF \E i \in DOMAIN ids : ids[i] = term_id THEN ids ELSE Append(ids, term_id)

SeqsOfLabels == SeqsUpTo(TermLabels, MaxLabels)

InitTerms ==
    /\ g_labels \in SeqsOfLabels
    /\ g_existing = <<>> /\ g_term_map = {} /\ g_todo = <<>>
    /\ g_ids = <<>> /\ g_creates = <<>>
    /\ g_pc = "list"
    /\ ConvIdle /\ ValIdle /\ RetryIdle /\ LimIdle /\ OrchIdle /\ TagsIdle /\ MigIdle /\ ParIdle /\ DraftIdle /\ SharedIdle

terms_frame == <<conv_vars, val_vars, retry_vars, lim_vars, orch_vars, tags_vars, mig_vars, par_vars, draft_vars, shared_vars>>

\* if not labels: return ids
TermsNoLabels ==
    /\ g_pc = "list" /\ clean_labels(g_labels) = <<>>
    /\ g_pc' = "done"
    /\ UNCHANGED <<g_labels, g_existing, g_term_map, g_todo, g_ids, g_creates>>
    /\ UNCHANGED terms_frame

\* the list request, and the construction of term_map (or {} on any exception)
TermsList(outcome) ==
    /\ g_pc = "list" /\ clean_labels(g_labels) # <<>>
    /\ g_existing' = (IF outcome = ListFailed THEN <<>> ELSE outcome)
    /\ g_term_map' = (IF outcome = ListFailed THEN {} ELSE map_of(outcome))
    /\ g_todo' = clean_labels(g_labels)
    /\ g_pc' = "loop"
    /\ UNCHANGED <<g_labels, g_ids, g_creates>>
    /\ UNCHANGED terms_frame

\* loop body, `if low in term_map`
TermsReuse ==
    /\ g_pc = "loop" /\ g_todo # <<>>
    /\ map_has(g_term_map, lower(Head(g_todo)))
    /\ g_ids' = ids_append(g_ids, map_get(g_term_map, lower(Head(g_todo))))
    /\ g_todo' = Tail(g_todo)
    /\ UNCHANGED <<g_labels, g_existing, g_term_map, g_creates, g_pc>>
    /\ UNCHANGED terms_frame

\* loop body, else branch: the create request and what follows it
TermsCreate(outcome) ==
    /\ g_pc = "loop" /\ g_todo # <<>>
    /\ ~map_has(g_term_map, lower(Head(g_todo)))
    /\ g_creates' = Append(g_creates, [label |-> Head(g_todo), outcome |-> outcome])
    /\ IF outcome \in TermIds
       THEN /\ g_ids' = ids_append(g_ids, outcome)
            /\ g_term_map' = map_put(g_term_map, lower(Head(g_todo)), outcome)
       ELSE UNCHANGED <<g_ids, g_term_map>>
    /\ g_todo' = Tail(g_todo)
    /\ UNCHANGED <<g_labels, g_existing, g_pc>>
    /\ UNCHANGED terms_frame

\* return ids
TermsReturn ==
    /\ g_pc = "loop" /\ g_todo = <<>>
    /\ g_pc' = "done"
    /\ UNCHANGED <<g_labels, g_existing, g_term_map, g_todo, g_ids, g_creates>>
    /\ UNCHANGED terms_frame

NextTerms ==
    \/ TermsNoLabels
    \/ \E outcome \in ListOutcomes : TermsList(outcome)
    \/ TermsReuse
    \/ \E outcome \in CreateOutcomes : TermsCreate(outcome)
    \/ TermsReturn

SpecTerms == InitTerms /\ [][NextTerms]_vars

\* ------------------------------------------------------------------------
\* C17 - Term resolution without duplicates: get_or_create_terms does not
\* raise and returns ids without duplicates; a label that matches a listed
\* term ignoring case gets that term's id and causes no create request; a label
\* whose create request fails adds nothing.
\* ------------------------------------------------------------------------
\* the listed term a label matches ignoring case (the last one, as in a dict)
MatchesListed(l) == \E i \in DOMAIN g_existing : lower(g_existing[i].label) = lower(strip(l))

ListedId(l) ==
    g_existing[CHOOSE i \in DOMAIN g_existing :
        /\ lower(g_existing[i].label) = lower(strip(l))
        /\ \A k \in DOMAIN g_existing :
              lower(g_existing[k].label) = lower(strip(l)) => k <= i].id

C17_TermResolution ==
    /\ g_pc \in {"idle", "list", "loop", "done"}
    /\ \A i, j \in DOMAIN g_ids : i # j => g_ids[i] # g_ids[j]
    /\ \A c \in DOMAIN g_creates : ~MatchesListed(g_creates[c].label)
    /\ \A i \in DOMAIN g_ids :
          \/ \E c \in DOMAIN g_creates : g_creates[c].outcome = g_ids[i] /\ g_ids[i] \in TermIds
          \/ \E k \in DOMAIN g_labels : MatchesListed(g_labels[k]) /\ ListedId(g_labels[k]) = g_ids[i]
    /\ g_pc = "done" =>
          /\ g_todo = <<>>
          /\ \A k \in DOMAIN g_labels :
                (strip(g_labels[k]) # <<>> /\ MatchesListed(g_labels[k]))
                    => \E i \in DOMAIN g_ids : g_ids[i] = ListedId(g_labels[k])

\* two labels resolved to one id: one reused from the list, one whose create returned the same id
C17_Witness ==
    /\ g_pc = "done" /\ Len(g_labels) = 2
    /\ Len(g_creates) = 1 /\ g_creates[1].outcome = <<"T1">>
    /\ MatchesListed(g_labels[1])
    /\ g_ids = << <<"T1">> >>

\* a create request failed and its label was skipped
C17_WitnessFailed ==
    /\ g_pc = "done" /\ Len(g_creates) = 2
    /\ g_creates[1].outcome = CreateFailed /\ g_creates[2].outcome \in TermIds
    /\ Len(g_ids) = 1

\* ------------------------------------------------------------------------
\* migration_tool.py: WordPressMigrationTool.migrate_posts.  A collaborator
\* (create_member, import_image_from_url, get_or_create_terms, the converter,
\* create_draft_post, publish_post) is seen by its outcome; m_calls records
\* which of them were invoked.
\* ------------------------------------------------------------------------
\* a post: its "Author Email" ("" if it has none), whether it has a
\* FeaturedImageUrl, whether it has Categories / Tags
PostKinds ==
    { [email |-> "", cover |-> TRUE, terms |-> TRUE],
      [email |-> "e1", cover |-> FALSE, terms |-> FALSE],
      [email |-> "e2", cover |-> TRUE, terms |-> FALSE],
      [email |-> "e1", cover |-> FALSE, terms |-> TRUE] }

DefaultEmail == "default-author@example.com"

LimitArgs == {PyNone, PyInt(1)}

\* outcomes of create_member: a member with an id, a member whose id is empty,
\* None, HTTPError 409, another HTTPError, another exception
MemberOutcomes == {"member", "empty_id", "none", "http409", "http_error", "exception"}
\* outcomes of create_draft_post: a response with draftPost.id, one without, an exception
DraftOutcomes == {"with_id", "without_id", "exception"}
CallOutcomes == {"ok", "exception"}

\* (variant: the importer is handed to the converter in every mode)
importer_passed_always(dry_run) == TRUE

\* image_importer=image_importer if not dry_run else None
importer_passed(dry_run) == ~dry_run

post == m_posts[m_index]

mig_frame == <<conv_vars, val_vars, retry_vars, lim_vars, orch_vars, tags_vars, terms_vars, par_vars, draft_vars, shared_vars>>

InitMigrate ==
    /\ m_dry_run \in BOOLEAN
    /\ m_limit \in LimitArgs
    /\ m_posts \in SeqsUpTo(PostKinds, MaxPosts)
    /\ m_index = 0 /\ m_count = 0 /\ m_member_id = ""
    /\ m_map \in {{}, {"e1"}}
    /\ m_default = FALSE
    /\ m_calls = {} /\ m_reports = <<>> /\ m_migrated = <<>>
    /\ m_pc = "next"
    /\ ConvIdle /\ ValIdle /\ RetryIdle /\ LimIdle /\ OrchIdle /\ TagsIdle /\ TermsIdle /\ ParIdle /\ DraftIdle /\ SharedIdle

\* `continue` with the code reported for the current post
Skip(code) == m_reports' = Append(m_reports, code) /\ m_pc' = "next"

\* for post in posts: the loop is left (posts exhausted, or `break` on the limit)
LoopLeave ==
    /\ m_pc = "next"
    /\ m_index = Len(m_posts) \/ (m_limit # PyNone /\ m_count >= m_limit.v)
    /\ m_pc' = "redirects"
    /\ UNCHANGED <<m_dry_run, m_limit, m_posts, m_index, m_count, m_member_id, m_map, m_default,
                   m_calls, m_reports, m_migrated>>
    /\ UNCHANGED mig_frame

\* for post in posts: the next post is taken
LoopEnter ==
    /\ m_pc = "next"
    /\ m_index < Len(m_posts) /\ ~(m_limit # PyNone /\ m_count >= m_limit.v)
    /\ m_index' = m_index + 1 /\ m_count' = m_count + 1
    /\ m_member_id' = "" /\ m_reports' = <<>>
    /\ m_pc' = "member"
    /\ UNCHANGED <<m_dry_run, m_limit, m_posts, m_map, m_default, m_calls, m_migrated>>
    /\ UNCHANGED mig_frame

\* the member id is already known: the email is in the map, or the default member is set
MemberKnown ==
    /\ m_pc = "member"
    /\ IF post.email # "" THEN post.email \in m_map ELSE m_default
    /\ m_member_id' = "M"
    /\ m_pc' = "cover"
    /\ UNCHANGED <<m_dry_run, m_limit, m_posts, m_index, m_count, m_map, m_default,
                   m_calls, m_reports, m_migrated>>
    /\ UNCHANGED mig_frame

\* dry run and no known member: member_id stays None and the post goes on
MemberDryRun ==
    /\ m_pc = "member"
    /\ ~(IF post.email # "" THEN post.email \in m_map ELSE m_default)
    /\ m_dry_run
    /\ m_pc' = "cover"
    /\ UNCHANGED <<m_dry_run, m_limit, m_posts, m_index, m_count, m_member_id, m_map, m_default,
                   m_calls, m_reports, m_migrated>>
    /\ UNCHANGED mig_frame

\* create_member for the author's email or for the default author, its handlers,
\* and the `if not member_id and not dry_run` test that follows
MemberCreate(outcome) ==
    /\ m_pc = "member"
    /\ ~(IF post.email # "" THEN post.email \in m_map ELSE m_default)
    /\ ~m_dry_run
    /\ m_calls' = m_calls \cup {"create_member"}
    /\ CASE outcome = "member" ->
              /\ m_member_id' = "M"
              /\ m_map' = m_map \cup {IF post.email # "" THEN post.email ELSE DefaultEmail}
              /\ m_default' = (m_default \/ post.email = "")
              /\ m_pc' = "cover"
              /\ UNCHANGED m_reports
         [] outcome = "empty_id" ->
              /\ m_map' = m_map \cup {IF post.email # "" THEN post.email ELSE DefaultEmail}
              /\ Skip("MISSING_MEMBER_ID")
              /\ UNCHANGED <<m_member_id, m_default>>
         [] outcome = "none" ->
              /\ Skip("MEMBER_CREATION_FAILED")
              /\ UNCHANGED <<m_member_id, m_map, m_default>>
         [] outcome = "http409" ->
              /\ Skip(IF post.email # "" THEN "MEMBER_ALREADY_EXISTS_BUT_NOT_IN_MAP"
                      ELSE "MEMBER_ALREADY_EXISTS")
              /\ UNCHANGED <<m_member_id, m_map, m_default>>
         [] outcome = "http_error" ->
              /\ Skip("MEMBER_CREATION_FAILED")
              /\ UNCHANGED <<m_member_id, m_map, m_default>>
         [] OTHER ->
              \* only the author branch has `except Exception`
              /\ IF post.email # "" THEN Skip("MEMBER_CREATION_FAILED")
                 ELSE m_pc' = "raised" /\ UNCHANGED m_reports
              /\ UNCHANGED <<m_member_id, m_map, m_default>>
    /\ UNCHANGED <<m_dry_run, m_limit, m_posts, m_index, m_count, m_migrated>>
    /\ UNCHANGED mig_frame

\* cover image: nothing to upload, or dry run
CoverSkip ==
    /\ m_pc = "cover"
    /\ ~post.cover \/ m_dry_run
    /\ m_pc' = "taxonomy"
    /\ UNCHANGED <<m_dry_run, m_limit, m_posts, m_index, m_count, m_member_id, m_map, m_default,
                   m_calls, m_reports, m_migrated>>
    /\ UNCHANGED mig_frame

\* cover image: import_image_from_url gives a media id or None
CoverUpload(has_id) ==
    /\ m_pc = "cover"
    /\ post.cover /\ ~m_dry_run
    /\ m_calls' = m_calls \cup {"import_image_from_url"}
    /\ m_reports' = (IF has_id THEN m_reports ELSE Append(m_reports, "MEDIA_UPLOAD"))
    /\ m_pc' = "taxonomy"
    /\ UNCHANGED <<m_dry_run, m_limit, m_posts, m_index, m_count, m_member_id, m_map, m_default,
                   m_migrated>>
    /\ UNCHANGED mig_frame

\* taxonomies: no categories / tags, or dry run
TaxonomySkip ==
    /\ m_pc = "taxonomy"
    /\ ~post.terms \/ m_dry_run
    /\ m_pc' = "convert"
    /\ UNCHANGED <<m_dry_run, m_limit, m_posts, m_index, m_count, m_member_id, m_map, m_default,
                   m_calls, m_reports, m_migrated>>
    /\ UNCHANGED mig_frame

\* taxonomies: get_or_create_terms for the categories and the tags
TaxonomyEnsure ==
    /\ m_pc = "taxonomy"
    /\ post.terms /\ ~m_dry_run
    /\ m_calls' = m_calls \cup {"get_or_create_terms"}
    /\ m_pc' = "convert"
    /\ UNCHANGED <<m_dry_run, m_limit, m_posts, m_index, m_count, m_member_id, m_map, m_default,
                   m_reports, m_migrated>>
    /\ UNCHANGED mig_frame

\* convert_html_to_ricos; with an importer, each image of the html is imported
Convert(outcome, has_images) ==
    /\ m_pc = "convert"
    /\ m_calls' = m_calls
            \cup {IF importer_passed(m_dry_run) THEN "convert:importer" ELSE "convert:no_importer"}
            \cup (IF importer_passed(m_dry_run) /\ has_images THEN {"import_image_from_url"} ELSE {})
    /\ IF outcome = "ok" THEN m_pc' = "draft" /\ UNCHANGED m_reports
       ELSE Skip("WIX_NETWORK")
    /\ UNCHANGED <<m_dry_run, m_limit, m_posts, m_index, m_count, m_member_id, m_map, m_default,
                   m_migrated>>
    /\ UNCHANGED mig_frame

\* dry run: draft_resp = {"post": {...}}, whose "draftPost" id is then looked up
DraftDryRun ==
    /\ m_pc = "draft" /\ m_dry_run
    /\ Skip("WIX_DRAFT_400")
    /\ UNCHANGED <<m_dry_run, m_limit, m_posts, m_index, m_count, m_member_id, m_map, m_default,
                   m_calls, m_migrated>>
    /\ UNCHANGED mig_frame

\* create_draft_post and the draft id test
DraftCreate(outcome) ==
    /\ m_pc = "draft" /\ ~m_dry_run
    /\ m_calls' = m_calls \cup {"create_draft_post"}
    /\ CASE outcome = "with_id" -> m_reports' = Append(m_reports, "DRAFT_CREATED") /\ m_pc' = "publish"
         [] outcome = "without_id" -> Skip("WIX_DRAFT_400")
         [] OTHER -> Skip("WIX_NETWORK")
    /\ UNCHANGED <<m_dry_run, m_limit, m_posts, m_index, m_count, m_member_id, m_map, m_default,
                   m_migrated>>
    /\ UNCHANGED mig_frame

\* publish (in a dry run the url is built locally), then migrated.append and PUBLISHED
Publish(outcome) ==
    /\ m_pc = "publish"
    /\ m_calls' = (IF m_dry_run THEN m_calls ELSE m_calls \cup {"publish_post"})
    /\ IF m_dry_run \/ outcome = "ok"
       THEN /\ m_migrated' = Append(m_migrated, m_index)
            /\ m_reports' = Append(m_reports, "PUBLISHED")
            /\ m_pc' = "next"
       ELSE Skip("PUBLISH") /\ UNCHANGED m_migrated
    /\ UNCHANGED <<m_dry_run, m_limit, m_posts, m_index, m_count, m_member_id, m_map, m_default>>
    /\ UNCHANGED mig_frame

\* generate_redirects_csv(migrated, ...) inside try/except, then return
Redirects ==
    /\ m_pc = "redirects"
    /\ m_pc' = "done"
    /\ UNCHANGED <<m_dry_run, m_limit, m_posts, m_index, m_count, m_member_id, m_map, m_default,
                   m_calls, m_reports, m_migrated>>
    /\ UNCHANGED mig_frame

NextMigrate ==
    \/ LoopLeave
    \/ LoopEnter
    \/ MemberKnown
    \/ MemberDryRun
    \/ \E outcome \in MemberOutcomes : MemberCreate(outcome)
    \/ CoverSkip
    \/ \E has_id \in BOOLEAN : CoverUpload(has_id)
    \/ TaxonomySkip
    \/ TaxonomyEnsure
    \/ \E outcome \in CallOutcomes, has_images \in BOOLEAN : Convert(outcome, has_images)
    \/ DraftDryRun
    \/ \E outcome \in DraftOutcomes : DraftCreate(outcome)
    \/ \E outcome \in CallOutcomes : Publish(outcome)
    \/ Redirects

SpecMigrate == InitMigrate /\ [][NextMigrate]_vars

\* ------------------------------------------------------------------------
\* C18 - Dry-run isolation: with dry_run true, migrate_posts invokes none of
\* create_member, import_image_from_url, get_or_create_terms,
\* create_draft_post, publish_post, and hands no image importer to the
\* converter.
\* ------------------------------------------------------------------------
WixCalls ==
    {"create_member", "import_image_from_url", "get_or_create_terms",
     "create_draft_post", "publish_post"}

C18_DryRunIsolation ==
    m_dry_run => m_calls \cap (WixCalls \cup {"convert:importer"}) = {}

\* a dry run went through two posts, one with an unknown author, a cover and
\* taxonomies among them, and converted without an importer
C18_Witness ==
    /\ m_dry_run /\ m_pc = "done" /\ m_index = 2
    /\ \E i \in DOMAIN m_posts : m_posts[i].cover /\ m_posts[i].terms
    /\ \E i \in DOMAIN m_posts : m_posts[i].email = "e2"
    /\ "convert:no_importer" \in m_calls

\* ------------------------------------------------------------------------
\* C19 - No decoration leakage: the decorations of every text run are those
\* of the inline tags that enclose its text within the block, in order: a
\* decoration of one subtree is on no text of a sibling subtree or of the
\* parent.
\* ------------------------------------------------------------------------
\* the chain of enclosing decorations of every run the children give rise to,
\* in document order (a string of blanks, or an image that is imported, gives no run)
RECURSIVE enclosing_decorations(_, _)
enclosing_decorations(kids, chain) ==
    IF kids = <<>> THEN <<>>
    ELSE LET k == Head(kids)
             own == CASE IsString(k) -> IF strip(k.text) # <<>> THEN <<chain>> ELSE <<>>
                      [] k.name = "br" -> <<chain>>
                      [] k.name = "img" ->
                            IF image_importer = "resolves" /\ k.src # <<>> THEN <<>> ELSE <<chain>>
                      [] OTHER -> enclosing_decorations(k.kids, chain \o tag_decoration(k))
         IN  own \o enclosing_decorations(Tail(kids), chain)

InlineBuiltTags == {"p", "div", "section", "blockquote"} \cup HeadingTags

\* the input is one block whose content build_inline turns into runs
OneInlineBuiltBlock ==
    Len(container) = 1 /\ IsTag(container[1]) /\ container[1].name \in InlineBuiltTags

\* the input is one run of inline siblings
OneInlineRun ==
    /\ container # <<>>
    /\ \A i \in DOMAIN container :
          IF IsString(container[i]) THEN strip(container[i].text) # <<>>
          ELSE is_inline_tag(container[i].name)

decorations_of(runs) == [i \in DOMAIN runs |-> runs[i].decorations]

C19_NoDecorationLeak ==
    pc = "done" =>
        /\ OneInlineBuiltBlock =>
              decorations_of(text_runs(result.nodes)) = enclosing_decorations(container[1].kids, <<>>)
        /\ OneInlineRun =>
              decorations_of(text_runs(result.nodes)) = enclosing_decorations(container, <<>>)

\* a block with undecorated text after a decorated subtree has been converted
C19_Witness ==
    /\ pc = "done" /\ OneInlineBuiltBlock
    /\ \E i, j \in DOMAIN text_runs(result.nodes) :
          /\ i < j
          /\ Len(text_runs(result.nodes)[i].decorations) = 2
          /\ text_runs(result.nodes)[j].decorations = <<>>

\* ------------------------------------------------------------------------
\* Two invocations of convert_html_to_ricos_local on separate workers, their
\* loop iterations interleaved. Both are given the same image_importer (a
\* pure function of the URL) and table_mode.
\* ------------------------------------------------------------------------
Workers == {1, 2}

\* (variant: nodes and inline_run are module-level, one frame for every invocation)
frame_shared(w) == 1

\* nodes and inline_run are locals of the invocation (inline_run reached by
\* flush_inline_run through `nonlocal`): each invocation has its own frame
frame(w) == w

ParChildren ==
    { Txt(<<"t">>),
      Txt(<<" ">>),
      El("strong", <<Txt(<<"s">>)>>),
      El("p", <<Txt(<<"c">>), ImgXA>>) }

ParInputs == SeqsUpTo(ParChildren, MaxParChildren)

InitParallel ==
    /\ image_importer \in ImporterModes
    /\ table_mode = "html" /\ html_arg = "str"
    /\ container = <<>> /\ inline_run = <<>> /\ nodes = <<>>
    /\ pc = "idle" /\ result = doc(<<>>)
    /\ p_input \in [Workers -> ParInputs]
    /\ p_todo = p_input
    /\ p_run = [w \in Workers |-> <<>>]
    /\ p_nodes = [w \in Workers |-> <<>>]
    /\ p_pc = [w \in Workers |-> "scan"]
    /\ p_result = [w \in Workers |-> doc(<<>>)]
    /\ ValIdle /\ RetryIdle /\ LimIdle /\ OrchIdle /\ TagsIdle /\ TermsIdle /\ MigIdle /\ DraftIdle /\ SharedIdle

par_frame == <<conv_vars, val_vars, retry_vars, lim_vars, orch_vars, tags_vars, terms_vars, mig_vars, draft_vars, shared_vars>>

\* one iteration of worker w's `for child in container.children`
ParScan(w) ==
    /\ p_pc[w] = "scan" /\ p_todo[w] # <<>>
    /\ p_todo' = [p_todo EXCEPT ![w] = Tail(@)]
    /\ LET iteration(st) ==
               IF st.exc
               THEN p_pc' = [p_pc EXCEPT ![w] = "raised"] /\ UNCHANGED <<p_nodes, p_run>>
               ELSE /\ p_pc' = p_pc
                    /\ p_nodes' = [p_nodes EXCEPT ![frame(w)] = @ \o st.nodes]
                    /\ p_run' = [p_run EXCEPT ![frame(w)] = st.run]
       IN  iteration(root_step(Head(p_todo[w]), p_run[frame(w)]))
    /\ UNCHANGED <<p_input, p_result>>
    /\ UNCHANGED par_frame

\* worker w after its loop: flush the trailing run, return validate_ricos(doc(nodes))
ParFinish(w) ==
    /\ p_pc[w] = "scan" /\ p_todo[w] = <<>>
    /\ LET returning(fin) ==
               IF fin.exc
               THEN p_pc' = [p_pc EXCEPT ![w] = "raised"] /\ UNCHANGED <<p_nodes, p_run, p_result>>
               ELSE /\ p_nodes' = [p_nodes EXCEPT ![frame(w)] = fin.nodes]
                    /\ p_run' = [p_run EXCEPT ![frame(w)] = <<>>]
                    /\ p_result' = [p_result EXCEPT ![w] = fin.doc]
                    /\ p_pc' = [p_pc EXCEPT ![w] = "done"]
       IN  returning(root_finish(p_run[frame(w)], p_nodes[frame(w)]))
    /\ UNCHANGED <<p_input, p_todo>>
    /\ UNCHANGED par_frame

NextParallel ==
    \/ \E w \in Workers : ParScan(w)
    \/ \E w \in Workers : ParFinish(w)

SpecParallel == InitParallel /\ [][NextParallel]_vars

\* ------------------------------------------------------------------------
\* C20 - Independence of parallel conversions: each of two interleaved
\* invocations returns exactly the document it returns when run alone (and
\* raises only if it raises alone); nothing of one appears in the other.
\* ------------------------------------------------------------------------
C20_ParallelIndependence ==
    \A w \in Workers :
        /\ p_pc[w] = "done" =>
              /\ ~convert_html_to_ricos_local(p_input[w]).exc
              /\ p_result[w] = convert_html_to_ricos_local(p_input[w]).doc
        /\ p_pc[w] = "raised" => convert_html_to_ricos_local(p_input[w]).exc

\* worker 2 has returned a document of its own after worker 1 took a step
\* in the middle of worker 2's loop, while worker 1 still holds a buffered run
C20_Witness ==
    /\ p_pc[2] = "done" /\ p_pc[1] = "scan"
    /\ p_run[1] # <<>> /\ p_nodes[1] # <<>>
    /\ Len(p_result[2].nodes) = 3
    /\ p_input[1] # p_input[2]

\* ------------------------------------------------------------------------
\* C21 - Whitespace boundary: every whitespace-only text child of the root
\* flushes the inline buffer, so two top-level inline elements separated by a
\* whitespace-only text give two separate PARAGRAPH nodes, not one.
\* ------------------------------------------------------------------------
IsBlank(c) == IsString(c) /\ strip(c.text) = <<>>

\* an inline element whose content is text (not an image handed to the importer)
TextualInline(c) == IsTag(c) /\ is_inline_tag(c.name) /\ c.name # "img"

\* the top-level inline elements of the input are separated by a whitespace-only text
InlineBlankInline ==
    /\ Len(container) = 3
    /\ TextualInline(container[1]) /\ IsBlank(container[2]) /\ TextualInline(container[3])

IsBlockChild(c) == IsTag(c) /\ ~is_inline_tag(c.name)

\* the nodes of the document returned for the children cs alone
nodes_alone(cs) == convert_html_to_ricos_local(cs).doc.nodes

\* the texts of the runs of a paragraph, in order
run_texts(para) == [j \in DOMAIN para.nodes |-> para.nodes[j].text]

paragraphs_of(ns) == SelectSeq(ns, LAMBDA n : n.type = "PARAGRAPH")

last(q) == q[Len(q)]

FirstRowCells(el) ==
    IF find(el, "tr") = <<>> THEN <<>> ELSE find_all_direct(find(el, "tr")[1], {"td", "th"})

FirstCellIsTh(el) == FirstRowCells(el) # <<>> /\ FirstRowCells(el)[1].name = "th"

C23_HeaderRows ==
    (/\ pc = "done" /\ table_mode = "plugin"
     /\ Len(container) = 1 /\ IsTag(container[1]) /\ container[1].name = "table"
     /\ Len(result.nodes) = 1 /\ result.nodes[1].type = "TABLE") =>
        /\ result.nodes[1].headerRows \in {0, 1}
        /\ result.nodes[1].headerRows = 1 <=> FirstCellIsTh(container[1])

\* ------------------------------------------------------------------------
\* C24 - No resolved image is lost: for every <img> whose src the importer
\* resolves, the document holds an IMAGE node with the resolved id, wherever the
\* <img> stands (top level, paragraph, heading, list item, blockquote); and the
\* text that accompanies an image (the cells of a table holding it) leaves a
\* textual trace.
\* ------------------------------------------------------------------------
\* the characters of every text run and every HTML node of the document
textual_trace(ns) ==
    flatten([i \in DOMAIN text_runs(ns) |-> text_runs(ns)[i].text])
    \o flatten([i \in DOMAIN ns |-> ns[i].html])

C24_ResolvedImageKept ==
    (pc = "done" /\ image_importer = "resolves") =>
        /\ \A img \in input_images :
              img.src # <<>> =>
                  \E n \in Range(result.nodes) : n.type = "IMAGE" /\ n.src_id = MediaId(img.src)
        /\ \A i \in DOMAIN container :
              (IsTag(container[i]) /\ container[i].name = "table") =>
                  \A j \in DOMAIN all_strings(<<container[i]>>) :
                      Contains(textual_trace(result.nodes), strip(all_strings(<<container[i]>>)[j]))

\* ------------------------------------------------------------------------
\* C25 - Validator does not mutate its input: after validate_ricos returns,
\* the caller's node list holds the same node contents as before the call.
\* ------------------------------------------------------------------------
C25_ValidatorInputKept == v_pc = "done" => v_in = v_arg

\* ------------------------------------------------------------------------
\* C26 - Retry classification: while attempts remain, with_retries retries
\* on every HTTP error with status 429 or 5xx and on transport errors, sleeping
\* the Retry-After value if the response has one and base_delay * 2^attempt
\* otherwise; an HTTP error with another status is raised after the first call,
\* with no retry and no sleep.
\* ------------------------------------------------------------------------
ClaimedRetryable(status) == status = 429 \/ status \in 500..599

\* the i-th call failed in a way that is to be retried (a Retry-After in
\* HTTP-date form is left aside)
ToBeRetried(i) ==
    \/ r_outcomes[i].kind = "transport"
    \/ /\ r_outcomes[i].kind = "http"
       /\ ClaimedRetryable(r_outcomes[i].status)
       /\ r_outcomes[i].retry_after # "date"

C26_RetryClassification ==
    r_pc \in {"loop", "returned", "raised"} =>
        \A i \in DOMAIN r_outcomes :
            /\ (ToBeRetried(i) /\ i < r_max) =>
                  /\ i < r_calls \/ r_pc = "loop"
                  /\ Len(r_slept) >= i
                  /\ r_slept[i] = IF r_outcomes[i].retry_after = "seconds"
                                  THEN RetryAfterSeconds ELSE backoff(i - 1)
            /\ (r_outcomes[i].kind = "http" /\ ~ClaimedRetryable(r_outcomes[i].status)) =>
                  /\ i = r_calls /\ r_pc = "raised"
                  /\ i = 1 => r_slept = <<>>

\* ------------------------------------------------------------------------
\* wix_migrator.py: create_draft_post, the richContent of the request body.
\* A node is [tag: its position in the argument, size: len(json.dumps(node))];
\* the rich content is [kind: "none" (not a dict) | "no_nodes" (a dict without
\* 'nodes') | "doc", nodes, other: serialized size of its other keys].
\* ------------------------------------------------------------------------
SizeLimit == 50000
SizeMargin == 45000

NodeSizes == {5000, 20000, 24987, 25000, 30000, 49987, 49988}

\* serialized size of a second key after 'nodes': `, "metadata": {}`
OtherKeySizes == {0, 16}

nodes_of_sizes(sizes) == [i \in DOMAIN sizes |-> [tag |-> i, size |-> sizes[i]]]

RECURSIVE sum_sizes(_)
sum_sizes(ns) == IF ns = <<>> THEN 0 ELSE Head(ns).size + sum_sizes(Tail(ns))

\* len(json.dumps(richContent)): `{"nodes": [` + items joined by `, ` + `]` + other keys + `}`
dumps_len(ricos) ==
    11 + sum_sizes(ricos.nodes) + (IF ricos.nodes = <<>> THEN 0 ELSE 2 * (Len(ricos.nodes) - 1))
       + 1 + ricos.other + 1

\* if not isinstance(ricos, dict) or "nodes" not in ricos: richContent = {"nodes": []}
validated_content(ricos) ==
    IF ricos.kind # "doc" THEN [kind |-> "doc", nodes |-> <<>>, other |-> 0] ELSE ricos

\* (variant: a node that reaches the margin exactly is left out)
node_fits_below(current_size, node_size) == current_size + node_size < SizeMargin

\* the negation of `if current_size + len(node_json) > 45000: break`
node_fits(current_size, node_size) == current_size + node_size <= SizeMargin

\* the for loop over original_nodes: truncated_nodes
RECURSIVE truncate_loop(_, _, _)
truncate_loop(original_nodes, truncated_nodes, current_size) ==
    IF original_nodes = <<>> THEN truncated_nodes
    ELSE IF ~node_fits(current_size, Head(original_nodes).size) THEN truncated_nodes
    ELSE truncate_loop(Tail(original_nodes), Append(truncated_nodes, Head(original_nodes)),
                       current_size + Head(original_nodes).size)

\* body["draftPost"]["richContent"] when the request is made
sent_content(ricos) ==
    LET limited(content) ==
            IF dumps_len(content) > SizeLimit
            THEN [content EXCEPT !.nodes = truncate_loop(content.nodes, <<>>, 0)]
            ELSE content
    IN  limited(validated_content(ricos))

InitDraft ==
    /\ d_ricos \in {[kind |-> "none", nodes |-> <<>>, other |-> 0],
                    [kind |-> "no_nodes", nodes |-> <<>>, other |-> 16]}
                   \cup {[kind |-> "doc", nodes |-> nodes_of_sizes(sizes), other |-> o] :
                            sizes \in SeqsUpTo(NodeSizes, MaxDraftNodes), o \in OtherKeySizes}
    /\ d_after = d_ricos
    /\ d_sent = <<>>
    /\ d_pc = "call"
    /\ ConvIdle /\ ValIdle /\ RetryIdle /\ LimIdle /\ OrchIdle /\ TagsIdle /\ TermsIdle /\ MigIdle /\ ParIdle /\ SharedIdle

draft_frame == <<conv_vars, val_vars, retry_vars, lim_vars, orch_vars, tags_vars, terms_vars, mig_vars, par_vars, shared_vars>>

\* create_draft_post: build the body, make the request through with_retries;
\* the truncation assigns to the 'nodes' key of the caller's dict
CreateDraftPost(outcome) ==
    /\ d_pc = "call"
    /\ d_sent' = sent_content(d_ricos).nodes
    /\ d_after' = IF d_ricos.kind = "doc" THEN sent_content(d_ricos) ELSE d_ricos
    /\ d_pc' = outcome
    /\ UNCHANGED d_ricos
    /\ UNCHANGED draft_frame

NextDraft == \E outcome \in {"returned", "raised"} : CreateDraftPost(outcome)

SpecDraft == InitDraft /\ [][NextDraft]_vars

\* ------------------------------------------------------------------------
\* C27 - Draft payload truncation: rich content serialized in at most 50000
\* characters is sent with its node list unchanged; a larger one is sent with
\* the longest prefix of its node list whose summed per-node sizes do not exceed
\* 45000; a value that is not a dict with 'nodes' is sent as an empty node list.
\* ------------------------------------------------------------------------
PrefixFits(k) == sum_sizes(SubSeq(d_ricos.nodes, 1, k)) <= SizeMargin

C27_DraftTruncation ==
    d_pc \in {"returned", "raised"} =>
        /\ d_ricos.kind # "doc" => d_sent = <<>>
        /\ (d_ricos.kind = "doc" /\ dumps_len(d_ricos) <= SizeLimit) => d_sent = d_ricos.nodes
        /\ (d_ricos.kind = "doc" /\ dumps_len(d_ricos) > SizeLimit) =>
              \E k \in 0..Len(d_ricos.nodes) :
                  /\ d_sent = SubSeq(d_ricos.nodes, 1, k)
                  /\ PrefixFits(k)
                  /\ \A j \in (k + 1)..Len(d_ricos.nodes) : ~PrefixFits(j)

\* a node list was cut after two nodes whose sizes add up to the margin exactly
C27_Witness ==
    /\ d_pc = "returned" /\ d_ricos.kind = "doc"
    /\ Len(d_ricos.nodes) = 3 /\ Len(d_sent) = 2
    /\ sum_sizes(d_sent) = SizeMargin

\* a serialized size of exactly 50000 is sent whole although its node exceeds the margin
C27_WitnessAtLimit ==
    /\ d_pc = "returned" /\ dumps_len(d_ricos) = SizeLimit /\ d_sent = d_ricos.nodes
    /\ sum_sizes(d_sent) > SizeMargin

\* ------------------------------------------------------------------------
\* C28 - Dry-run completes the pipeline: in a dry run every processed post
\* whose conversion does not raise is reported DRAFT_CREATED and PUBLISHED and
\* gets an entry in the migrated list.
\* ------------------------------------------------------------------------
Reported(code) == \E i \in DOMAIN m_reports : m_reports[i] = code

\* the handling of the current post has ended
PostHandled == m_pc = "next" /\ m_index >= 1

C28_DryRunCompletes ==
    (m_dry_run /\ PostHandled /\ ~Reported("WIX_NETWORK")) =>
        /\ Reported("DRAFT_CREATED")
        /\ Reported("PUBLISHED")
        /\ \E i \in DOMAIN m_migrated : m_migrated[i] = m_index

\* ------------------------------------------------------------------------
\* C29 - Per-post failure isolation: whatever collaborator call fails while
\* a post is handled, migrate_posts does not raise: the error is reported for
\* that post, the loop goes on to the next post and ends with the redirects,
\* for posts with and without an author email.
\* ------------------------------------------------------------------------
C29_FailureIsolation ==
    /\ m_pc # "raised"
    /\ PostHandled => m_reports # <<>>
    /\ m_pc \in {"redirects", "done"} =>
          (m_index = Len(m_posts) \/ (m_limit # PyNone /\ m_count >= m_limit.v))

\* ------------------------------------------------------------------------
\* wix_migrator.py: the module-level _limiter, called from two workers.
\* wait() takes no lock: its reads of the clock and of _last, its sleep and its
\* write of _last are separate steps that interleave with the other worker's.
\* ------------------------------------------------------------------------
SharedRpmArgs == {3, 6}
SharedTicks == {5, 10}

InitShared ==
    /\ l_rpm \in {limiter_rpm(r) : r \in SharedRpmArgs}
    /\ l_last = 0
    /\ l_clock \in {0} \cup SharedTicks
    /\ l_returns = <<>>
    /\ k_pc = [w \in Workers |-> "idle"]
    /\ k_now = [w \in Workers |-> 0]
    /\ k_wake = [w \in Workers |-> 0]
    /\ ConvIdle /\ ValIdle /\ RetryIdle /\ OrchIdle
    /\ TagsIdle /\ TermsIdle /\ MigIdle /\ ParIdle /\ DraftIdle

shared_frame == <<conv_vars, val_vars, retry_vars, orch_vars,
                  tags_vars, terms_vars, mig_vars, par_vars, draft_vars>>

CallsStarted == Len(l_returns) + Cardinality({w \in Workers : k_pc[w] # "idle"})

\* time passes
SharedTick(d) ==
    /\ l_clock < MaxClock
    /\ l_clock' = l_clock + d
    /\ UNCHANGED <<l_rpm, l_last, l_returns, k_pc, k_now, k_wake>>
    /\ UNCHANGED shared_frame

\* now = time_fn()
ReadNow(w) ==
    /\ k_pc[w] = "idle" /\ CallsStarted < MaxCalls
    /\ k_now' = [k_now EXCEPT ![w] = l_clock]
    /\ k_pc' = [k_pc EXCEPT ![w] = "read"]
    /\ UNCHANGED <<l_rpm, l_last, l_clock, l_returns, k_wake>>
    /\ UNCHANGED shared_frame

\* dt = now - self._last; if dt < self.interval: sleep_fn(self.interval - dt) begins
ReadLast(w) ==
    /\ k_pc[w] = "read"
    /\ IF wait_sleep(k_now[w], l_last) > 0
       THEN /\ k_wake' = [k_wake EXCEPT ![w] = l_clock + wait_sleep(k_now[w], l_last)]
            /\ k_pc' = [k_pc EXCEPT ![w] = "sleep"]
       ELSE /\ k_pc' = [k_pc EXCEPT ![w] = "write"]
            /\ UNCHANGED k_wake
    /\ UNCHANGED <<l_rpm, l_last, l_clock, l_returns, k_now>>
    /\ UNCHANGED shared_frame

\* sleep_fn returns once the requested time has passed
WakeUp(w) ==
    /\ k_pc[w] = "sleep" /\ l_clock >= k_wake[w]
    /\ k_pc' = [k_pc EXCEPT ![w] = "write"]
    /\ UNCHANGED <<l_rpm, l_last, l_clock, l_returns, k_now, k_wake>>
    /\ UNCHANGED shared_frame

\* self._last = time_fn(), and the call returns
WriteLast(w) ==
    /\ k_pc[w] = "write"
    /\ l_last' = l_clock
    /\ l_returns' = Append(l_returns, l_clock)
    /\ k_pc' = [k_pc EXCEPT ![w] = "idle"]
    /\ k_now' = [k_now EXCEPT ![w] = 0]
    /\ k_wake' = [k_wake EXCEPT ![w] = 0]
    /\ UNCHANGED <<l_rpm, l_clock>>
    /\ UNCHANGED shared_frame

NextShared ==
    \/ \E d \in SharedTicks : SharedTick(d)
    \/ \E w \in Workers : ReadNow(w)
    \/ \E w \in Workers : ReadLast(w)
    \/ \E w \in Workers : WakeUp(w)
    \/ \E w \in Workers : WriteLast(w)

SpecShared == InitShared /\ [][NextShared]_vars

\* ------------------------------------------------------------------------
\* C30 - Rate limiter under concurrent callers: with two workers calling
\* wait() on the shared limiter, under every interleaving the returns of any two
\* calls are at least interval apart.
\* ------------------------------------------------------------------------
C30_ConcurrentRateLimit ==
    \A i, j \in DOMAIN l_returns : i < j => l_returns[j] - l_returns[i] >= interval

====
